---- MODULE Spec2Model ----
(***************************************************************************)
(* A model of the SELECT code generator of src/box/sql/select.c.           *)
(*                                                                         *)
(* The generator emits a program for the bytecode interpreter.  The model  *)
(* keeps the two levels apart: the operators named after the C functions   *)
(* build a program (a sequence of instructions) exactly where the C code   *)
(* calls sqlite3VdbeAddOp*, and the actions execute that program one       *)
(* instruction (or one loop iteration) at a time.  A scan of a base table  *)
(* is opaque: it delivers a finite sequence of rows.                       *)
(***************************************************************************)
EXTENDS Integers, Sequences, FiniteSets, TLC

\* ------------------------------------------------------------------ bounds
\* Rows of the simple SELECT are the integers 0..MaxVal.
MaxVal == 2
\* Longest scan of the simple SELECT.
MaxRows == 3
\* LIMIT ranges over -1..MaxLimit, OFFSET over -1..MaxOffset.
MaxLimit == 2
MaxOffset == 2
\* Rows of a recursive query are the integers 0..MaxRecVal; the recursive
\* term delivers at most MaxRecRows rows for one row of the queue.
MaxRecVal == 1
MaxRecRows == 1
\* The setup query of a recursive query delivers at most MaxSetupRows rows.
MaxSetupRows == 2
\* A run of a recursive query is followed for MaxPops queue extractions.
MaxPops == MaxLimit + MaxOffset + 1

\* ----------------------------------------------------------------- helpers
Range(s) == {s[i] : i \in 1..Len(s)}

SeqsUpTo(S, n) == UNION {[1..k -> S] : k \in 0..n}

Max(a, b) == IF a >= b THEN a ELSE b

\* The element of a singleton set.
The(S) == CHOOSE x \in S : TRUE

\* A row x stands for the two result columns (x / 2, x % 2).  An ORDER BY
\* list ob is "ASC" or "DESC" (the first column alone, so that two different
\* rows can tie on the sort key) or "SAME" (the whole result list,
\* ascending).
SortKey(row, ob) == IF ob = "SAME" THEN row ELSE row \div 2

\* The rows of an ephemeral index in key order (OP_Rewind .. OP_Next).
RECURSIVE SortedSeq(_)
SortedSeq(S) ==
    IF S = {} THEN <<>>
    ELSE LET m == CHOOSE x \in S : \A y \in S : x <= y
         IN <<m>> \o SortedSeq(S \ {m})

Reverse(s) == [i \in 1..Len(s) |-> s[Len(s) + 1 - i]]

\* --------------------------------------------------------------- variables
VARIABLES
    qry,      \* the statement handed to sqlite3Select (kept for reference)
    prog,     \* the generated program: Vdbe.aOp
    pc,       \* program counter, an index into prog
    cur,      \* position of the cursor of the loop being executed
    regs,     \* the register file: Vdbe.aMem
    tabs,     \* ephemeral indexes by cursor number: sets of rows
    sorter,   \* the sorting index of the ORDER BY: rows in (key, seq) order
    out,      \* rows delivered by OP_ResultRow, in order
    mem,      \* the SRT_Mem destination register (-1: never written)
    halt,     \* "" while running, else the OP_Halt message
    co,       \* rows each coroutine of the ordered merge has yielded so far
              \* (co.A, co.B) and the coroutines that have ended (co.eof)
    queue,    \* the Queue table of a recursive query, in extraction order
    popped,   \* history: the rows extracted from the Queue table, in order
    aggSorter \* the sorting index of GROUP BY: rows in (key, seq) order

vmVars == <<qry, prog, pc, cur, regs, tabs, sorter, out, mem, halt,
            co, queue, popped, aggSorter>>

vars == <<vmVars>>

\* ------------------------------------------------------- program emission
\* Parse context: register, cursor and label allocators and the program.
Parse0 == [nMem |-> 0, nTab |-> 0, nLabel |-> 0, prog |-> <<>>]

sqlite3VdbeAddOp(P, ins) == [P EXCEPT !.prog = Append(@, ins)]

sqlite3VdbeMakeLabel(P) == [P EXCEPT !.nLabel = @ + 1]

sqlite3VdbeResolveLabel(P, id) ==
    sqlite3VdbeAddOp(P, [op |-> "Label", id |-> id])

RECURSIVE EmitAll(_, _)
EmitAll(P, code) ==
    IF code = <<>> THEN P
    ELSE EmitAll(sqlite3VdbeAddOp(P, Head(code)), Tail(code))

\* First instruction at or after address i that is not a label.
RECURSIVE SkipLabels(_, _)
SkipLabels(pr, i) ==
    IF i <= Len(pr) /\ pr[i].op = "Label" THEN SkipLabels(pr, i + 1) ELSE i

LabelAddr(pr, id) ==
    SkipLabels(pr, CHOOSE i \in 1..Len(pr) :
                       pr[i].op = "Label" /\ pr[i].id = id)

\* --------------------------------------------------------- the statement
NoLimit == [has |-> FALSE, n |-> 0, isInt |-> TRUE, sys |-> FALSE]
NoOffset == [has |-> FALSE, m |-> 0]

\* computeLimitRegisters: allocate and initialise the LIMIT and OFFSET
\* counters of p unless p already has a LIMIT register.  Returns the
\* updated parse context and Select.
computeLimitRegisters(P, p, iBreak) ==
    IF p.iLimit # 0 \/ ~p.pLimit.has THEN [P |-> P, p |-> p]
    ELSE LET iLimit == P.nMem + 1
             single == "SF_SingleRow" \in p.selFlags
             cLimit ==
                 IF p.pLimit.isInt
                 THEN <<[op |-> "Integer", n |-> p.pLimit.n, reg |-> iLimit]>>
                      \o (IF p.pLimit.n = 0
                          THEN <<[op |-> "Goto", to |-> iBreak]>> ELSE <<>>)
                 ELSE <<[op |-> "Integer", n |-> p.pLimit.n, reg |-> iLimit],
                        [op |-> "IfNot", reg |-> iLimit, to |-> iBreak]>>
             cSingle ==
                 IF ~single THEN <<>>
                 ELSE IF p.pLimit.sys
                      THEN <<[op |-> "Integer", n |-> 2, reg |-> iLimit]>>
                      ELSE <<[op |-> "HaltUnlessOne", reg |-> iLimit]>>
             flags == IF single /\ ~p.pLimit.sys
                      THEN p.selFlags \ {"SF_SingleRow"} ELSE p.selFlags
             iOffset == iLimit + 1
             cOffset ==
                 IF p.pOffset.has
                 THEN <<[op |-> "Integer", n |-> p.pOffset.m, reg |-> iOffset],
                        [op |-> "OffsetLimit", lim |-> iLimit,
                         res |-> iOffset + 1, off |-> iOffset]>>
                 ELSE <<>>
         IN [P |-> EmitAll([P EXCEPT !.nMem = IF p.pOffset.has
                                               THEN iLimit + 2 ELSE iLimit],
                           cLimit \o cSingle \o cOffset),
             p |-> [p EXCEPT !.iLimit = iLimit,
                             !.iOffset = IF p.pOffset.has THEN iOffset ELSE 0,
                             !.selFlags = flags]]

\* ------------------------------------------- semantics of the emitted code
\* The operators below give the effect of the instructions that the C
\* function of the same name emits, on the interpreter state st, a record
\* [regs, tabs, sorter, out, mem, queue, jump]; jump is "next" while control falls
\* through, "continue" after a jump to iContinue, "break" after a jump to
\* iBreak.

\* A faulty codeOffset that never skips a row: the OFFSET is lost.
codeOffset_NeverSkips(st, iOffset) == st

\* codeOffset: OP_IfPos iOffset, iContinue, 1.
codeOffset(st, iOffset) ==
    IF iOffset > 0 /\ st.regs[iOffset] > 0
    THEN [st EXCEPT !.regs[iOffset] = @ - 1, !.jump = "continue"]
    ELSE st

\* codeDistinct: OP_Found iTab, addrRepeat; OP_MakeRecord; OP_IdxInsert.
codeDistinct(st, iTab, row) ==
    IF row \in st.tabs[iTab]
    THEN [st EXCEPT !.jump = "continue"]
    ELSE [st EXCEPT !.tabs[iTab] = @ \cup {row}]

\* OP_IdxInsert into the sorting index, whose key is the ORDER BY key
\* followed by the OP_Sequence number: the new record goes after every
\* record whose ORDER BY key is not greater.
IdxInsert(idx, row, ob) ==
    LET n == Cardinality({i \in 1..Len(idx) :
                             SortKey(idx[i], ob) <= SortKey(row, ob)})
    IN SubSeq(idx, 1, n) \o <<row>> \o SubSeq(idx, n + 1, Len(idx))

\* pushOntoSorter (nOBSat = 0, bOrderedInnerLoop = 0): insert the record,
\* then OP_IfNotZero iLimit; OP_Last (OP_Rewind when SORTFLAG_DESC);
\* OP_Delete.
pushOntoSorter(st, I, row) ==
    LET iLimit == IF I.iOffset # 0 THEN I.iOffset + 1 ELSE I.iLimit
        st1 == [st EXCEPT !.sorter = IdxInsert(@, row, I.ob)]
    IN IF iLimit = 0 THEN st1
       ELSE IF st1.regs[iLimit] # 0
            THEN [st1 EXCEPT !.regs[iLimit] = IF @ > 0 THEN @ - 1 ELSE @]
            ELSE [st1 EXCEPT !.sorter =
                      IF I.desc THEN Tail(@) ELSE SubSeq(@, 1, Len(@) - 1)]

\* A faulty switch (eDest) in which SRT_Except inserts the row like
\* SRT_Union instead of deleting it.
RouteRow_ExceptInserts(st, I, row) ==
    IF I.eDest \in {"SRT_Union", "SRT_Except"}
    THEN [st EXCEPT !.tabs[I.iParm] = @ \cup {row}]
    ELSE IF I.sort THEN pushOntoSorter(st, I, row)
         ELSE IF I.eDest = "SRT_Mem" THEN st
              ELSE [st EXCEPT !.out = Append(@, row)]

\* OP_Found iParm + 1 of SRT_DistFifo and SRT_DistQueue: the row is in the
\* index of all rows ever added to the queue.
EverQueued(st, I, row) ==
    I.eDest \in {"SRT_DistFifo", "SRT_DistQueue"}
    /\ row \in st.tabs[I.iParm + 1]

\* OP_IdxInsert iParm + 1 of SRT_DistFifo and SRT_DistQueue.
NoteQueued(st, I, row) ==
    IF I.eDest \in {"SRT_DistFifo", "SRT_DistQueue"}
    THEN [st EXCEPT !.tabs[I.iParm + 1] = @ \cup {row}]
    ELSE st

\* A faulty switch (eDest) in which SRT_DistFifo and SRT_DistQueue lack the
\* OP_Found test: every row is added to the queue.
RouteRow_QueueWithoutFound(st, I, row) ==
    IF I.eDest \in {"SRT_Fifo", "SRT_DistFifo"}
    THEN [NoteQueued(st, I, row) EXCEPT !.queue = Append(@, row)]
    ELSE IF I.eDest \in {"SRT_Queue", "SRT_DistQueue"}
    THEN [NoteQueued(st, I, row) EXCEPT
              !.queue = IdxInsert(@, row, I.pSO)]
    ELSE [st EXCEPT !.out = Append(@, row)]

\* The switch (eDest) of selectInnerLoop.
RouteRow(st, I, row) ==
    CASE I.eDest = "SRT_Union" ->
             [st EXCEPT !.tabs[I.iParm] = @ \cup {row}]
      [] I.eDest = "SRT_Except" ->
             [st EXCEPT !.tabs[I.iParm] = @ \ {row}]
      [] I.eDest \in {"SRT_Fifo", "SRT_DistFifo"} ->
             \* the record gets the next id of the queue: it goes last
             IF EverQueued(st, I, row) THEN st
             ELSE IF I.sort
                  THEN pushOntoSorter(NoteQueued(st, I, row), I, row)
                  ELSE [NoteQueued(st, I, row) EXCEPT
                            !.queue = Append(@, row)]
      [] I.eDest \in {"SRT_Queue", "SRT_DistQueue"} ->
             \* the key is pDest->pOrderBy followed by OP_Sequence
             IF EverQueued(st, I, row) THEN st
             ELSE [NoteQueued(st, I, row) EXCEPT
                       !.queue = IdxInsert(@, row, I.pSO)]
      [] I.eDest = "SRT_Mem" ->
             IF I.sort THEN pushOntoSorter(st, I, row) ELSE st
      [] OTHER -> \* SRT_Output
             IF I.sort THEN pushOntoSorter(st, I, row)
             ELSE [st EXCEPT !.out = Append(@, row)]

\* A faulty selectInnerLoop without the closing OP_DecrJumpZero: the LIMIT
\* counter is never decremented and the loop never breaks.
selectInnerLoop_NoLimitCheck(st0, I, row) ==
    LET s1 == IF ~I.sort /\ I.eTnct = "NOOP" THEN codeOffset(st0, I.iOffset)
              ELSE st0
        s2 == IF s1.jump = "next" /\ I.eDest = "SRT_Mem"
              THEN [s1 EXCEPT !.mem = row] ELSE s1
    IN IF s2.jump # "next" THEN s2 ELSE RouteRow(s2, I, row)

\* A faulty selectInnerLoop that counts every row against OFFSET before
\* the DISTINCT test.
selectInnerLoop_OffsetFirst(st0, I, row) ==
    LET hasDistinct == I.eTnct # "NOOP"
        s1 == IF ~I.sort THEN codeOffset(st0, I.iOffset) ELSE st0
        s2 == IF s1.jump = "next" /\ I.eDest = "SRT_Mem"
              THEN [s1 EXCEPT !.mem = row] ELSE s1
        s3 == IF s2.jump # "next" \/ ~hasDistinct THEN s2
              ELSE CASE I.eTnct = "ORDERED" ->
                            IF s2.regs[I.tabTnct] = row
                            THEN [s2 EXCEPT !.jump = "continue"]
                            ELSE [s2 EXCEPT !.regs[I.tabTnct] = row]
                     [] I.eTnct = "UNIQUE" -> s2
                     [] OTHER -> codeDistinct(s2, I.tabTnct, row)
        s4 == IF s3.jump # "next" THEN s3 ELSE RouteRow(s3, I, row)
    IN IF s4.jump = "next" /\ ~I.sort /\ I.iLimit # 0
       THEN LET v == s4.regs[I.iLimit] - 1
            IN [s4 EXCEPT !.regs[I.iLimit] = v,
                          !.jump = IF v = 0 THEN "break" ELSE "next"]
       ELSE s4

\* selectInnerLoop: the code run for one row delivered by the loop.
\* I holds what is fixed when the code is generated: p->iLimit, p->iOffset,
\* the DISTINCT method, whether a sorter is in use, and the destination.
selectInnerLoop(st0, I, row) ==
    LET hasDistinct == I.eTnct # "NOOP"
        s1 == IF ~I.sort /\ ~hasDistinct THEN codeOffset(st0, I.iOffset)
              ELSE st0
        \* the result columns are computed into pDest->iSdst, which is the
        \* destination register itself for SRT_Mem
        s2 == IF s1.jump = "next" /\ I.eDest = "SRT_Mem"
              THEN [s1 EXCEPT !.mem = row] ELSE s1
        s3 == IF s2.jump # "next" \/ ~hasDistinct THEN s2
              ELSE LET d == CASE I.eTnct = "ORDERED" ->
                                     IF s2.regs[I.tabTnct] = row
                                     THEN [s2 EXCEPT !.jump = "continue"]
                                     ELSE [s2 EXCEPT !.regs[I.tabTnct] = row]
                              [] I.eTnct = "UNIQUE" -> s2
                              [] OTHER -> codeDistinct(s2, I.tabTnct, row)
                   IN IF d.jump = "next" /\ ~I.sort
                      THEN codeOffset(d, I.iOffset) ELSE d
        s4 == IF s3.jump # "next" THEN s3 ELSE RouteRow(s3, I, row)
    IN IF s4.jump = "next" /\ ~I.sort /\ I.iLimit # 0
       THEN \* OP_DecrJumpZero p->iLimit, iBreak
            LET v == s4.regs[I.iLimit] - 1
            IN [s4 EXCEPT !.regs[I.iLimit] = v,
                          !.jump = IF v = 0 THEN "break" ELSE "next"]
       ELSE s4

\* generateSortTail: the code run for one record of the sorting index.
generateSortTail(st0, I, row) ==
    LET s1 == codeOffset(st0, I.iOffset)
    IN IF s1.jump # "next" THEN s1
       ELSE IF I.eDest = "SRT_Mem" THEN [s1 EXCEPT !.mem = row]
            ELSE [s1 EXCEPT !.out = Append(@, row)]

\* A faulty output of the Current row without the OP_DecrJumpZero on
\* regLimit: the LIMIT never ends the queue loop.
OutputCurrent_NoLimitCheck(st, Q) ==
    The({IF s1.jump # "next" THEN s1
         ELSE selectInnerLoop(s1, Q.I, s1.regs[Q.regCurrent]) :
            s1 \in {codeOffset(st, Q.regOffset)}})

\* A faulty output of the row in Current that counts a row skipped by
\* OFFSET against LIMIT.
OutputCurrent_LimitCountsSkipped(st, Q) ==
    LET s1 == codeOffset(st, Q.regOffset)
        s2 == IF s1.jump # "next" THEN s1
              ELSE selectInnerLoop(s1, Q.I, s1.regs[Q.regCurrent])
    IN IF s2.jump # "break" /\ Q.regLimit # 0
       THEN [s2 EXCEPT !.regs[Q.regLimit] = @ - 1,
                       !.jump = IF s2.regs[Q.regLimit] = 1
                                THEN "break" ELSE s2.jump]
       ELSE s2

\* generateWithRecursiveQuery, "Output the single row in Current":
\* codeOffset(regOffset, addrCont); selectInnerLoop(p, ..., iCurrent, 0, 0,
\* pDest, addrCont, addrBreak) with p->iLimit = p->iOffset = 0;
\* OP_DecrJumpZero regLimit, addrBreak.
OutputCurrent(st, Q) ==
    The({IF s1.jump # "next" THEN s1
         ELSE The({IF s2.jump = "next" /\ Q.regLimit # 0
                   THEN [s2 EXCEPT
                            !.regs[Q.regLimit] = @ - 1,
                            !.jump = IF s2.regs[Q.regLimit] = 1
                                     THEN "break" ELSE "next"]
                   ELSE s2 :
                      s2 \in {selectInnerLoop(s1, Q.I,
                                              s1.regs[Q.regCurrent])}}) :
            s1 \in {codeOffset(st, Q.regOffset)}})

\* vdbe_code_raise_on_multiple_rows: OP_Integer 0, r1; OP_Ne r1, end_mark,
\* limit_reg; OP_Halt.
vdbe_code_raise_on_multiple_rows(P, limit_reg) ==
    sqlite3VdbeAddOp(P, [op |-> "RaiseIfZero", reg |-> limit_reg])

ErrMultipleRows == "SQL error: Expression subquery returned more than 1 row"
ErrLimitOne == "SQL error: Expression subquery could be limited only with 1"

\* ------------------------------------------------------ sqlite3Select
\* IgnorableOrderby(pDest): the destination is indifferent to row order.
IgnorableOrderby(dest) ==
    dest.eDest \in {"SRT_Union", "SRT_Except", "SRT_Fifo", "SRT_DistFifo",
                    "SRT_Queue", "SRT_DistQueue"}

\* sqlite3Select for a statement that is neither compound nor aggregate.
\* p.rows is what the WHERE loop delivers; p.nOBSat and p.eTnctPlan are the
\* planner's answers sqlite3WhereIsOrdered and sqlite3WhereIsDistinct.  The
\* recursive term of a recursive query reads the Current pseudo-table: for
\* the row held in register p.regCurrent its WHERE loop delivers
\* p.rec[row].
SelectSimple(P0, p0, dest) ==
    LET p1 == IF IgnorableOrderby(dest)
              THEN [p0 EXCEPT !.pOrderBy = "NONE",
                              !.selFlags = @ \ {"SF_Distinct"}]
              ELSE p0
        hasOB == p1.pOrderBy # "NONE"
        Pa == IF hasOB
              THEN sqlite3VdbeAddOp([P0 EXCEPT !.nTab = @ + 1],
                                    [op |-> "OpenSorter"])
              ELSE P0
        Pb == sqlite3VdbeMakeLabel(Pa)
        iEnd == Pb.nLabel
        L == computeLimitRegisters(Pb, p1, iEnd)
        p2 == L.p
        eTnct == IF "SF_Distinct" \in p2.selFlags THEN p2.eTnctPlan
                 ELSE "NOOP"
        \* the cursor of the distinct index, or regPrev for the ORDERED case
        tabTnct == IF eTnct = "ORDERED" THEN L.P.nMem + 1 ELSE L.P.nTab
        Pc == CASE eTnct = "UNORDERED" ->
                       sqlite3VdbeAddOp([L.P EXCEPT !.nTab = @ + 1],
                                        [op |-> "OpenEphemeral",
                                         tab |-> tabTnct])
                [] eTnct = "ORDERED" ->
                       sqlite3VdbeAddOp([L.P EXCEPT !.nTab = @ + 1,
                                                    !.nMem = @ + 1],
                                        [op |-> "Null", reg |-> tabTnct])
                [] eTnct = "UNIQUE" -> [L.P EXCEPT !.nTab = @ + 1]
                [] OTHER -> L.P
        sort == hasOB /\ p2.nOBSat = 0
        I == [op |-> "InnerLoop", rows |-> p2.rows, srcTab |-> -1,
              rec |-> p2.rec, regCurrent |-> p2.regCurrent,
              probe |-> -1, iLimit |-> p2.iLimit, iOffset |-> p2.iOffset,
              eTnct |-> eTnct, tabTnct |-> tabTnct, sort |-> sort,
              desc |-> (p2.pOrderBy = "DESC"), ob |-> p2.pOrderBy,
              eDest |-> dest.eDest, iParm |-> dest.iSDParm,
              pSO |-> dest.pOrderBy]
        Pd == sqlite3VdbeAddOp(Pc, I)
        Pe == IF sort
              THEN sqlite3VdbeAddOp(Pd, [op |-> "SortTail",
                                         iOffset |-> p2.iOffset,
                                         desc |-> (p2.pOrderBy = "DESC"),
                                         eDest |-> dest.eDest])
              ELSE Pd
        Pf == IF "SF_SingleRow" \in p2.selFlags /\ p2.iLimit # 0
              THEN vdbe_code_raise_on_multiple_rows(Pe, p2.iLimit)
              ELSE Pe
    IN [P |-> sqlite3VdbeResolveLabel(Pf, iEnd), p |-> p2]

\* ---------------------------------------------------------- the interpreter
Running == halt = "" /\ pc <= Len(prog)
Finished == halt = "" /\ pc > Len(prog)

St == [regs |-> regs, tabs |-> tabs, sorter |-> sorter, out |-> out,
       mem |-> mem, queue |-> queue, jump |-> "next"]

\* Straight-line instructions.
StepOp ==
    /\ Running
    /\ prog[pc].op \in {"Integer", "Goto", "IfNot", "OffsetLimit",
                        "HaltUnlessOne", "RaiseIfZero", "OpenEphemeral",
                        "OpenSorter", "Null", "Copy"}
    /\ LET i == prog[pc]
           nxt == SkipLabels(prog, pc + 1)
       IN CASE i.op = "Integer" ->
                   /\ regs' = [regs EXCEPT ![i.reg] = i.n]
                   /\ pc' = nxt
                   /\ UNCHANGED <<tabs, sorter, halt>>
            [] i.op = "Null" ->
                   /\ regs' = [regs EXCEPT ![i.reg] = -1]
                   /\ pc' = nxt
                   /\ UNCHANGED <<tabs, sorter, halt>>
            [] i.op = "Copy" ->
                   /\ regs' = [regs EXCEPT ![i.reg] = regs[i.src]]
                   /\ pc' = nxt
                   /\ UNCHANGED <<tabs, sorter, halt>>
            [] i.op = "Goto" ->
                   \* to = 0: sqlite3VdbeGoto to the address i.addr
                   /\ pc' = IF i.to = 0 THEN i.addr
                            ELSE LabelAddr(prog, i.to)
                   /\ UNCHANGED <<regs, tabs, sorter, halt>>
            [] i.op = "IfNot" ->
                   /\ pc' = IF regs[i.reg] = 0 THEN LabelAddr(prog, i.to)
                            ELSE nxt
                   /\ UNCHANGED <<regs, tabs, sorter, halt>>
            [] i.op = "OffsetLimit" ->
                   /\ regs' = [regs EXCEPT ![i.res] =
                                  IF regs[i.lim] > 0
                                  THEN regs[i.lim] + Max(regs[i.off], 0)
                                  ELSE -1]
                   /\ pc' = nxt
                   /\ UNCHANGED <<tabs, sorter, halt>>
            [] i.op = "HaltUnlessOne" ->
                   /\ halt' = IF regs[i.reg] = 1 THEN "" ELSE ErrLimitOne
                   /\ pc' = IF regs[i.reg] = 1 THEN nxt ELSE pc
                   /\ UNCHANGED <<regs, tabs, sorter>>
            [] i.op = "RaiseIfZero" ->
                   /\ halt' = IF regs[i.reg] # 0 THEN "" ELSE ErrMultipleRows
                   /\ pc' = IF regs[i.reg] # 0 THEN nxt ELSE pc
                   /\ UNCHANGED <<regs, tabs, sorter>>
            [] i.op = "OpenEphemeral" ->
                   /\ tabs' = [tabs EXCEPT ![i.tab] = {}]
                   /\ pc' = nxt
                   /\ UNCHANGED <<regs, sorter, halt>>
            [] OTHER -> \* OpenSorter
                   /\ sorter' = <<>>
                   /\ pc' = nxt
                   /\ UNCHANGED <<regs, tabs, halt>>
    /\ UNCHANGED <<qry, prog, cur, out, mem, co, queue, popped, aggSorter>>

\* The rows the loop of instruction i iterates over.
LoopRows(i) ==
    IF i.srcTab >= 0 THEN SortedSeq(tabs[i.srcTab])
    ELSE IF i.regCurrent > 0 THEN i.rec[regs[i.regCurrent]]
    ELSE i.rows

\* One iteration of a loop whose body is selectInnerLoop.
InnerLoopRow ==
    /\ Running
    /\ prog[pc].op = "InnerLoop"
    /\ cur <= Len(LoopRows(prog[pc]))
    /\ LET i == prog[pc]
           row == LoopRows(i)[cur]
           st == IF i.probe >= 0 /\ row \notin tabs[i.probe]
                 THEN [St EXCEPT !.jump = "continue"]   \* OP_NotFound
                 ELSE selectInnerLoop(St, i, row)
       IN /\ regs' = st.regs /\ tabs' = st.tabs /\ sorter' = st.sorter
          /\ out' = st.out /\ mem' = st.mem /\ queue' = st.queue
          /\ IF st.jump = "break"
             THEN pc' = SkipLabels(prog, pc + 1) /\ cur' = 1
             ELSE pc' = pc /\ cur' = cur + 1
    /\ UNCHANGED <<qry, prog, halt, co, popped, aggSorter>>

\* The loop is exhausted.
InnerLoopEnd ==
    /\ Running
    /\ prog[pc].op = "InnerLoop"
    /\ cur > Len(LoopRows(prog[pc]))
    /\ pc' = SkipLabels(prog, pc + 1)
    /\ cur' = 1
    /\ UNCHANGED <<qry, prog, regs, tabs, sorter, out, mem, halt>>
    /\ UNCHANGED <<co, queue, popped, aggSorter>>

\* The order in which the sort tail reads the sorting index.
TailRows(i) == IF i.desc THEN Reverse(sorter) ELSE sorter

SortTailRow ==
    /\ Running
    /\ prog[pc].op = "SortTail"
    /\ cur <= Len(sorter)
    /\ LET st == generateSortTail(St, prog[pc], TailRows(prog[pc])[cur])
       IN /\ regs' = st.regs /\ out' = st.out /\ mem' = st.mem
    /\ cur' = cur + 1
    /\ UNCHANGED <<qry, prog, pc, tabs, sorter, halt>>
    /\ UNCHANGED <<co, queue, popped, aggSorter>>

SortTailEnd ==
    /\ Running
    /\ prog[pc].op = "SortTail"
    /\ cur > Len(sorter)
    /\ pc' = SkipLabels(prog, pc + 1)
    /\ cur' = 1
    /\ UNCHANGED <<qry, prog, regs, tabs, sorter, out, mem, halt>>
    /\ UNCHANGED <<co, queue, popped, aggSorter>>

\* OP_OpenTEphemeral iQueue of a recursive query.
QueueOpen ==
    /\ Running
    /\ prog[pc].op = "OpenQueue"
    /\ queue' = <<>>
    /\ pc' = SkipLabels(prog, pc + 1)
    /\ UNCHANGED <<qry, prog, cur, regs, tabs, sorter, out, mem, halt>>
    /\ UNCHANGED <<co, popped, aggSorter>>

\* The top of the queue loop: OP_Rewind iQueue, addrBreak; then the first
\* row of Queue moves to Current (OP_RowData or OP_Column; OP_Delete).  A
\* run is cut off after MaxPops extractions.
QueueRewind ==
    /\ Running
    /\ prog[pc].op = "Rewind"
    /\ IF queue = <<>>
       THEN /\ pc' = LabelAddr(prog, prog[pc].to)
            /\ UNCHANGED <<regs, queue, popped>>
       ELSE /\ Len(popped) < MaxPops
            /\ regs' = [regs EXCEPT ![prog[pc].regCurrent] = Head(queue)]
            /\ queue' = Tail(queue)
            /\ popped' = Append(popped, Head(queue))
            /\ pc' = SkipLabels(prog, pc + 1)
    /\ UNCHANGED <<qry, prog, cur, tabs, sorter, out, mem, halt>>
    /\ UNCHANGED <<co, aggSorter>>

\* The output of the row in Current.
CurrentRow ==
    /\ Running
    /\ prog[pc].op = "OutputCurrent"
    /\ \E st \in {OutputCurrent(St, prog[pc])} :
          /\ regs' = st.regs /\ tabs' = st.tabs /\ sorter' = st.sorter
          /\ out' = st.out /\ mem' = st.mem /\ queue' = st.queue
          /\ pc' = IF st.jump = "break"
                   THEN LabelAddr(prog, prog[pc].brk)
                   ELSE SkipLabels(prog, pc + 1)
    /\ UNCHANGED <<qry, prog, cur, halt, co, popped, aggSorter>>

\* The interpreter state right after the program P.prog is loaded.
Load(P) ==
    /\ prog = P.prog
    /\ pc = SkipLabels(P.prog, 1)
    /\ cur = 1
    /\ regs = [r \in 1..P.nMem |-> 0]
    /\ tabs = [t \in 0..(P.nTab - 1) |-> {}]
    /\ sorter = <<>>
    /\ out = <<>>
    /\ mem = -1
    /\ halt = ""
    /\ co = [A |-> 0, B |-> 0, eof |-> {}]
    /\ queue = <<>>
    /\ popped = <<>>
    /\ aggSorter = <<>>

\* ------------------------------------------------------------- GROUP BY
\* A GROUP BY list is "COL1" (the first column) or "SAME" (the whole result
\* list).  The result list of a grouped query is its GROUP BY list; HAVING
\* is count(*) >= pHaving (0: no HAVING).
GroupKey(row, gb) == IF gb = "SAME" THEN row ELSE row \div 2

\* sqlite3ExprListCompare(pGroupBy, sSort.pOrderBy, -1) == 0
SameList(gb, ob) == gb = "SAME" /\ ob = "SAME"

\* A faulty rewrite that installs the GROUP BY but loses the ORDER BY.
DistinctToGroupBy_DropsOrderBy(p) ==
    IF "SF_Distinct" \in p.selFlags /\ p.pOrderBy = "SAME"
    THEN [p EXCEPT !.selFlags = @ \ {"SF_Distinct"}, !.pGroupBy = "SAME",
                   !.pOrderBy = "NONE"]
    ELSE p

\* sqlite3Select, the rewrite of SELECT DISTINCT xyz ... ORDER BY xyz into
\* SELECT xyz ... GROUP BY xyz ORDER BY xyz.
DistinctToGroupBy(p) ==
    IF /\ "SF_Distinct" \in p.selFlags
       /\ "SF_Aggregate" \notin p.selFlags
       /\ p.pOrderBy = "SAME"
    THEN [p EXCEPT !.selFlags = @ \ {"SF_Distinct"}, !.pGroupBy = "SAME"]
    ELSE p

\* resetAccumulator: OP_Null mnReg..mxReg.
resetAccumulator(st, G) ==
    [st EXCEPT !.regs[G.accCol] = -1, !.regs[G.accCnt] = -1]

\* updateAccumulator: OP_AggStep0 for count(*), then the column values of
\* the current row.
updateAccumulator(st, G, row) ==
    [st EXCEPT !.regs[G.accCnt] = IF @ < 0 THEN 1 ELSE @ + 1,
               !.regs[G.accCol] = row]

\* A faulty output subroutine that ignores iUseFlag: it also emits the
\* empty accumulator.
OutputRow_IgnoresUseFlag(st, G) ==
    [st EXCEPT !.out = Append(@, GroupKey(st.regs[G.accCol], G.gb))]

\* The output subroutine of the GROUP BY loop (addrOutputRow): a no-op
\* unless iUseFlag is positive; HAVING; selectInnerLoop with iBreak =
\* addrSetAbort, which sets iAbortFlag.
OutputRow(st, G) ==
    IF st.regs[G.iUseFlag] <= 0 THEN st
    ELSE IF G.pHaving # 0 /\ st.regs[G.accCnt] < G.pHaving THEN st
    ELSE The({[s EXCEPT !.regs[G.iAbortFlag] =
                            IF s.jump = "break" THEN 1 ELSE @,
                        !.jump = "next"] :
                 s \in {selectInnerLoop(st, G.I,
                            GroupKey(st.regs[G.accCol], G.gb))}})

\* A faulty loop body without the OP_IfPos on iAbortFlag after the output
\* subroutine.
GroupStep_NoPoll(st, G, row) ==
    IF st.regs[G.iAMem] = GroupKey(row, G.gb)
    THEN [updateAccumulator(st, G, row) EXCEPT !.regs[G.iUseFlag] = 1]
    ELSE The({[updateAccumulator(resetAccumulator(s1, G), G, row)
                  EXCEPT !.regs[G.iUseFlag] = 1] :
                 s1 \in {OutputRow([st EXCEPT !.regs[G.iAMem] =
                                                  GroupKey(row, G.gb)],
                                    G)}})

\* The body of the GROUP BY loop for one row: compare the GROUP BY terms
\* with those of the previous row (iAMem); on a change output the finished
\* group, leave the loop if iAbortFlag is set, reset the accumulator; then
\* update the accumulator and set iUseFlag.
GroupStep(st, G, row) ==
    IF st.regs[G.iAMem] = GroupKey(row, G.gb)
    THEN [updateAccumulator(st, G, row) EXCEPT !.regs[G.iUseFlag] = 1]
    ELSE The({IF s1.regs[G.iAbortFlag] > 0
              THEN [s1 EXCEPT !.jump = "break"]
              ELSE [updateAccumulator(resetAccumulator(s1, G), G, row)
                       EXCEPT !.regs[G.iUseFlag] = 1] :
                 s1 \in {OutputRow([st EXCEPT !.regs[G.iAMem] =
                                                  GroupKey(row, G.gb)],
                                    G)}})

\* sqlite3Select for a statement with GROUP BY that is not compound.
\* p.nGBSat is the planner's answer sqlite3WhereIsOrdered (1: the scan
\* delivers the rows of a group together), p.isSorted its answer
\* sqlite3WhereIsSorted.
SelectGroupBy(P0, p0, dest) ==
    LET orderByGrp == SameList(p0.pGroupBy, p0.pOrderBy)
        groupBySort == p0.nGBSat = 0
        \* the ORDER BY survives unless the groups come out in its order
        hasOB == p0.pOrderBy # "NONE"
                 /\ ~(orderByGrp /\ (groupBySort \/ p0.isSorted))
        Pa == IF hasOB
              THEN sqlite3VdbeAddOp([P0 EXCEPT !.nTab = @ + 1],
                                    [op |-> "OpenSorter"])
              ELSE IF p0.pOrderBy # "NONE" THEN [P0 EXCEPT !.nTab = @ + 1]
              ELSE P0
        Pb == sqlite3VdbeMakeLabel(Pa)
        iEnd == Pb.nLabel
        L == computeLimitRegisters(Pb, p0, iEnd)
        p2 == L.p
        eTnct == IF "SF_Distinct" \in p2.selFlags THEN "UNORDERED"
                 ELSE "NOOP"
        tabTnct == L.P.nTab
        Pc == IF eTnct = "UNORDERED"
              THEN sqlite3VdbeAddOp([L.P EXCEPT !.nTab = @ + 1],
                       [op |-> "OpenEphemeral", tab |-> tabTnct])
              ELSE L.P
        Pd == sqlite3VdbeMakeLabel(Pc)
        addrEnd == Pd.nLabel
        accCol == Pd.nMem + 1
        accCnt == Pd.nMem + 2
        iUseFlag == Pd.nMem + 3
        iAbortFlag == Pd.nMem + 4
        iAMem == Pd.nMem + 7
        I == [op |-> "InnerLoop", rows |-> <<>>, srcTab |-> -1,
              probe |-> -1, iLimit |-> p2.iLimit, iOffset |-> p2.iOffset,
              eTnct |-> eTnct, tabTnct |-> tabTnct, sort |-> hasOB,
              desc |-> (p2.pOrderBy = "DESC"), ob |-> p2.pOrderBy,
              eDest |-> dest.eDest, iParm |-> dest.iSDParm,
              pSO |-> dest.pOrderBy]
        G == [op |-> "GroupLoop", rows |-> p2.rows,
              groupBySort |-> groupBySort, gb |-> p2.pGroupBy,
              pHaving |-> p2.pHaving, accCol |-> accCol, accCnt |-> accCnt,
              iUseFlag |-> iUseFlag, iAbortFlag |-> iAbortFlag,
              iAMem |-> iAMem, I |-> I, to |-> addrEnd]
        Pe == EmitAll([Pd EXCEPT !.nMem = @ + 8, !.nTab = @ + 1],
                  <<[op |-> "SorterOpen"],
                    [op |-> "Integer", n |-> 0, reg |-> iAbortFlag],
                    [op |-> "Integer", n |-> 0, reg |-> iUseFlag],
                    [op |-> "Null", reg |-> iAMem],
                    [G EXCEPT !.op = "GosubReset"]>>
                  \o (IF groupBySort
                      THEN <<[op |-> "SorterLoop", rows |-> p2.rows,
                              gb |-> p2.pGroupBy],
                             [op |-> "SorterSort", to |-> addrEnd]>>
                      ELSE <<>>)
                  \o <<G,
                       [G EXCEPT !.op = "GosubOutputRow"],
                       [op |-> "Goto", to |-> addrEnd],
                       [op |-> "Label", id |-> addrEnd]>>)
        Pf == IF hasOB
              THEN sqlite3VdbeAddOp(Pe, [op |-> "SortTail",
                                         iOffset |-> p2.iOffset,
                                         desc |-> (p2.pOrderBy = "DESC"),
                                         eDest |-> dest.eDest])
              ELSE Pe
        Pg == IF "SF_SingleRow" \in p2.selFlags /\ p2.iLimit # 0
              THEN vdbe_code_raise_on_multiple_rows(Pf, p2.iLimit)
              ELSE Pf
    IN [P |-> sqlite3VdbeResolveLabel(Pg, iEnd), p |-> p2]

\* sqlite3Select for a statement that is not compound.
SelectOne(P, p0, dest) ==
    LET p1 == IF IgnorableOrderby(dest)
              THEN [p0 EXCEPT !.pOrderBy = "NONE",
                              !.selFlags = @ \ {"SF_Distinct"}]
              ELSE p0
        p2 == DistinctToGroupBy(p1)
    IN IF p2.pGroupBy # "NONE" THEN SelectGroupBy(P, p2, dest)
       ELSE SelectSimple(P, p2, dest)

\* Straight-line instructions of the GROUP BY code: OP_SorterOpen, the
\* OP_Gosub to the reset subroutine, OP_SorterSort (which jumps when the
\* sorter is empty) and the final OP_Gosub to the output subroutine.
GroupOp ==
    /\ Running
    /\ prog[pc].op \in {"SorterOpen", "GosubReset", "SorterSort",
                        "GosubOutputRow"}
    /\ LET i == prog[pc]
           nxt == SkipLabels(prog, pc + 1)
       IN CASE i.op = "SorterOpen" ->
                   /\ aggSorter' = <<>>
                   /\ pc' = nxt
                   /\ UNCHANGED <<regs, tabs, sorter, out, mem>>
            [] i.op = "GosubReset" ->
                   /\ regs' = resetAccumulator(St, i).regs
                   /\ pc' = nxt
                   /\ UNCHANGED <<aggSorter, tabs, sorter, out, mem>>
            [] i.op = "SorterSort" ->
                   /\ pc' = IF aggSorter = <<>> THEN LabelAddr(prog, i.to)
                            ELSE nxt
                   /\ UNCHANGED <<aggSorter, regs, tabs, sorter, out, mem>>
            [] OTHER -> \* GosubOutputRow
                   \E st \in {OutputRow(St, i)} :
                      /\ regs' = st.regs /\ tabs' = st.tabs
                      /\ sorter' = st.sorter /\ out' = st.out
                      /\ mem' = st.mem
                      /\ pc' = nxt
                      /\ UNCHANGED aggSorter
    /\ UNCHANGED <<qry, prog, cur, halt, co, queue, popped>>

\* The first loop of a GROUP BY that must sort: OP_SorterInsert of the
\* current row; the sorter keeps the rows in GROUP BY order.
SorterLoopRow ==
    /\ Running
    /\ prog[pc].op = "SorterLoop"
    /\ cur <= Len(prog[pc].rows)
    /\ LET row == prog[pc].rows[cur]
           gb == prog[pc].gb
           n == Cardinality({i \in 1..Len(aggSorter) :
                    GroupKey(aggSorter[i], gb) <= GroupKey(row, gb)})
       IN aggSorter' = SubSeq(aggSorter, 1, n) \o <<row>>
                       \o SubSeq(aggSorter, n + 1, Len(aggSorter))
    /\ cur' = cur + 1
    /\ UNCHANGED <<qry, prog, pc, regs, tabs, sorter, out, mem, halt>>
    /\ UNCHANGED <<co, queue, popped>>

SorterLoopEnd ==
    /\ Running
    /\ prog[pc].op = "SorterLoop"
    /\ cur > Len(prog[pc].rows)
    /\ pc' = SkipLabels(prog, pc + 1)
    /\ cur' = 1
    /\ UNCHANGED <<qry, prog, regs, tabs, sorter, out, mem, halt>>
    /\ UNCHANGED <<co, queue, popped, aggSorter>>

\* The rows the GROUP BY loop reads: the sorter or the scan.
GroupRows(i) == IF i.groupBySort THEN aggSorter ELSE i.rows

\* One iteration of the GROUP BY loop.
GroupLoopRow ==
    /\ Running
    /\ prog[pc].op = "GroupLoop"
    /\ cur <= Len(GroupRows(prog[pc]))
    /\ \E st \in {GroupStep(St, prog[pc], GroupRows(prog[pc])[cur])} :
          /\ regs' = st.regs /\ tabs' = st.tabs /\ sorter' = st.sorter
          /\ out' = st.out /\ mem' = st.mem
          /\ IF st.jump = "break"
             THEN pc' = LabelAddr(prog, prog[pc].to) /\ cur' = 1
             ELSE pc' = pc /\ cur' = cur + 1
    /\ UNCHANGED <<qry, prog, halt, co, queue, popped, aggSorter>>

GroupLoopEnd ==
    /\ Running
    /\ prog[pc].op = "GroupLoop"
    /\ cur > Len(GroupRows(prog[pc]))
    /\ pc' = SkipLabels(prog, pc + 1)
    /\ cur' = 1
    /\ UNCHANGED <<qry, prog, regs, tabs, sorter, out, mem, halt>>
    /\ UNCHANGED <<co, queue, popped, aggSorter>>

\* ------------------------------------------------- the simple SELECT
Min(a, b) == IF a <= b THEN a ELSE b

\* rows arrive in ORDER BY order (what sqlite3WhereIsOrdered may report)
InOrder(rows, ob) ==
    \A i \in 1..(Len(rows) - 1) :
        IF ob = "DESC" THEN SortKey(rows[i], ob) >= SortKey(rows[i + 1], ob)
        ELSE SortKey(rows[i], ob) <= SortKey(rows[i + 1], ob)

\* equal rows are adjacent (WHERE_DISTINCT_ORDERED)
DupsAdjacent(rows) ==
    \A i, j \in 1..Len(rows) :
        (i < j /\ rows[i] = rows[j]) => \A k \in i..j : rows[k] = rows[i]

\* no two rows are equal (WHERE_DISTINCT_UNIQUE)
NoDups(rows) == \A i, j \in 1..Len(rows) : rows[i] = rows[j] => i = j

Limits == {NoLimit} \cup
          [has : {TRUE}, n : -1..MaxLimit, isInt : BOOLEAN, sys : {FALSE}]
Offsets == {NoOffset} \cup [has : {TRUE}, m : -1..MaxOffset]

SimpleShapes ==
    {c \in [rows : SeqsUpTo(0..MaxVal, MaxRows), distinct : BOOLEAN,
            ob : {"NONE", "ASC", "DESC"}, lim : Limits, off : Offsets,
            nOBSat : {0, 1},
            eTnctPlan : {"UNORDERED", "ORDERED", "UNIQUE"}] :
        /\ c.off.has => c.lim.has
        /\ c.nOBSat = 1 => (c.ob # "NONE" /\ InOrder(c.rows, c.ob))
        /\ c.eTnctPlan = "ORDERED" => (c.distinct /\ DupsAdjacent(c.rows))
        /\ c.eTnctPlan = "UNIQUE" => (c.distinct /\ NoDups(c.rows))}

MkSelect(rows, op, flags, lim, off, ob, nOBSat, eTnctPlan) ==
    [rows |-> rows, op |-> op, selFlags |-> flags, pLimit |-> lim,
     pOffset |-> off, iLimit |-> 0, iOffset |-> 0, pOrderBy |-> ob,
     nOBSat |-> nOBSat, eTnctPlan |-> eTnctPlan,
     pGroupBy |-> "NONE", pHaving |-> 0, nGBSat |-> 0, isSorted |-> FALSE,
     rec |-> <<>>, regCurrent |-> 0]

SimpleSelect(c) ==
    MkSelect(c.rows, "TK_SELECT",
             IF c.distinct THEN {"SF_Distinct"} ELSE {},
             c.lim, c.off, c.ob, c.nOBSat, c.eTnctPlan)

DestOutput == [eDest |-> "SRT_Output", iSDParm |-> 0,
                      pOrderBy |-> "NONE"]

InitSelect ==
    \E c \in SimpleShapes :
        /\ qry = [terms |-> <<SimpleSelect(c)>>, dest |-> DestOutput]
        /\ Load(SelectOne(Parse0, SimpleSelect(c), DestOutput).P)

NextSelect ==
    \/ StepOp
    \/ InnerLoopRow
    \/ InnerLoopEnd
    \/ SortTailRow
    \/ SortTailEnd

SpecSelect == InitSelect /\ [][NextSelect]_vars

\* ------------------------------------------------ reference results
\* The first occurrence of every row, in order.
RECURSIVE Dedup(_)
Dedup(s) ==
    IF s = <<>> THEN <<>>
    ELSE LET r == Dedup(SubSeq(s, 1, Len(s) - 1))
         IN IF s[Len(s)] \in Range(r) THEN r ELSE Append(r, s[Len(s)])

\* Ascending by SortKey, rows with equal keys in their original order.
RECURSIVE StableSort(_, _)
StableSort(s, ob) ==
    IF s = <<>> THEN <<>>
    ELSE LET i == CHOOSE i \in 1..Len(s) :
                      /\ \A j \in 1..Len(s) :
                             SortKey(s[i], ob) <= SortKey(s[j], ob)
                      /\ \A j \in 1..(i - 1) :
                             SortKey(s[j], ob) > SortKey(s[i], ob)
         IN <<s[i]>> \o
            StableSort(SubSeq(s, 1, i - 1) \o SubSeq(s, i + 1, Len(s)), ob)

\* The logically ordered result of a simple SELECT before LIMIT/OFFSET:
\* DISTINCT applied, then the ORDER BY order (the scan order when the scan
\* already delivers that order or when there is no ORDER BY).
LogicalResult(p) ==
    LET D == IF "SF_Distinct" \in p.selFlags THEN Dedup(p.rows) ELSE p.rows
    IN IF p.pOrderBy = "NONE" \/ p.nOBSat = 1 THEN D
       ELSE IF p.pOrderBy = "DESC" THEN Reverse(StableSort(D, p.pOrderBy))
            ELSE StableSort(D, p.pOrderBy)

\* Rows m .. m+n-1 (counted from 0) of R; all rows from m on when n < 0.
Window(R, n, m) ==
    IF n = 0 THEN <<>>
    ELSE SubSeq(R, m + 1, IF n < 0 THEN Len(R) ELSE Min(Len(R), m + n))

Col(row, c) == IF c = 1 THEN row \div 2 ELSE row % 2

\* The columns of row picked by the permutation aPermute (the ORDER BY
\* columns, in ORDER BY order).
KeyOf(row, aPermute) == [i \in 1..Len(aPermute) |-> Col(row, aPermute[i])]

\* OP_Compare on two register vectors of equal length: -1, 0 or 1.
RECURSIVE Compare(_, _)
Compare(a, b) ==
    IF a = <<>> THEN 0
    ELSE IF Head(a) < Head(b) THEN -1
    ELSE IF Head(a) > Head(b) THEN 1
    ELSE Compare(Tail(a), Tail(b))

\* generateOutputSubroutine without the duplicate test: every row of the
\* coroutine is output.
generateOutputSubroutine_KeepsDuplicates(st, G, row) ==
    [st EXCEPT !.out = Append(@, row)]

\* A faulty generateOutputSubroutine that counts a row against OFFSET
\* before it tests it for being a duplicate.
generateOutputSubroutine_OffsetFirst(st, G, row) ==
    LET s1 == codeOffset(st, G.iOffset)
        s2 == IF s1.jump # "next" \/ G.regPrev = 0 THEN s1
              ELSE IF s1.regs[G.regPrev] # 0 /\ s1.regs[G.regPrev + 1] = row
                   THEN [s1 EXCEPT !.jump = "continue"]
                   ELSE [s1 EXCEPT !.regs[G.regPrev + 1] = row,
                                   !.regs[G.regPrev] = 1]
        s3 == IF s2.jump # "next" THEN s2
              ELSE [s2 EXCEPT !.out = Append(@, row)]
    IN IF s3.jump = "next" /\ G.iLimit # 0
       THEN LET v == s3.regs[G.iLimit] - 1
            IN [s3 EXCEPT !.regs[G.iLimit] = v,
                          !.jump = IF v = 0 THEN "break" ELSE "next"]
       ELSE s3

\* generateOutputSubroutine: the code run by OP_Gosub regOutX for the
\* current row of a coroutine.  G holds regPrev, p->iOffset, p->iLimit and
\* the destination.
generateOutputSubroutine(st, G, row) ==
    LET s1 == IF G.regPrev = 0 THEN st
              ELSE IF st.regs[G.regPrev] # 0 /\ st.regs[G.regPrev + 1] = row
                   THEN [st EXCEPT !.jump = "continue"]
                   ELSE [st EXCEPT !.regs[G.regPrev + 1] = row,
                                   !.regs[G.regPrev] = 1]
        s2 == IF s1.jump = "next" THEN codeOffset(s1, G.iOffset) ELSE s1
        s3 == IF s2.jump # "next" THEN s2
              ELSE IF G.eDest = "SRT_Mem" THEN [s2 EXCEPT !.mem = row]
                   ELSE [s2 EXCEPT !.out = Append(@, row)]
    IN IF s3.jump = "next" /\ G.iLimit # 0
       THEN LET v == s3.regs[G.iLimit] - 1
            IN [s3 EXCEPT !.regs[G.iLimit] = v,
                          !.jump = IF v = 0 THEN "break" ELSE "next"]
       ELSE s3

\* A faulty patch-up that puts the missing result columns in front of the
\* terms of the user.
RECURSIVE ExtendOrderBy_Prepends(_, _, _)
ExtendOrderBy_Prepends(pOrderBy, i, nExpr) ==
    IF i > nExpr THEN pOrderBy
    ELSE ExtendOrderBy_Prepends(IF i \in Range(pOrderBy) THEN pOrderBy
                                ELSE <<i>> \o pOrderBy,
                                i + 1, nExpr)

\* The ORDER BY list of a compound that is not UNION ALL is extended by the
\* result columns it does not mention.
RECURSIVE ExtendOrderBy(_, _, _)
ExtendOrderBy(pOrderBy, i, nExpr) ==
    IF i > nExpr THEN pOrderBy
    ELSE ExtendOrderBy(IF i \in Range(pOrderBy) THEN pOrderBy
                       ELSE Append(pOrderBy, i),
                       i + 1, nExpr)

\* multiSelectOrderBy for p (the right SELECT, carrying the ORDER BY list as
\* a sequence of result-column numbers) and pPrior (the left SELECT).
\* Each SELECT is coded as a coroutine that yields p.rows, which arrive in
\* ORDER BY order, and no more rows than its LIMIT register allows (UNION
\* ALL hands LIMIT + OFFSET down to both).  The addresses the C code
\* remembers (addrEofA, addrAltB, ...) are labels here.
multiSelectOrderBy(P0, p, pPrior, dest) ==
    LET op == p.op
        pOrderBy == IF op # "TK_ALL" THEN ExtendOrderBy(p.pOrderBy, 1, 2)
                    ELSE p.pOrderBy
        regPrev == IF op = "TK_ALL" THEN 0 ELSE P0.nMem + 1
        nMem1 == IF op = "TK_ALL" THEN P0.nMem ELSE P0.nMem + 2
        base == P0.nLabel
        labelEnd == base + 1
        labelCmpr == base + 2
        addrEofA == IF op \in {"TK_EXCEPT", "TK_INTERSECT"} THEN labelEnd
                    ELSE base + 3
        addrEofA_noB == IF op \in {"TK_EXCEPT", "TK_INTERSECT"}
                        THEN labelEnd ELSE base + 4
        addrEofB == IF op = "TK_INTERSECT" THEN addrEofA ELSE base + 5
        addrAltB == base + 6
        addrAeqB == base + 7
        addrAgtB == base + 8
        addrSelectB == base + 9
        addrInit == base + 10
        L == computeLimitRegisters(
                 [P0 EXCEPT !.nMem = nMem1, !.nLabel = base + 10], p,
                 labelEnd)
        limited == L.p.iLimit # 0 /\ op = "TK_ALL"
        regLimitA == IF limited THEN L.P.nMem + 1 ELSE 0
        regLimitB == IF limited THEN L.P.nMem + 2 ELSE 0
        cLimit == IF limited
                  THEN <<[op |-> "Copy", reg |-> regLimitA,
                          src |-> IF L.p.iOffset # 0 THEN L.p.iOffset + 1
                                  ELSE L.p.iLimit],
                         [op |-> "Copy", reg |-> regLimitB,
                          src |-> regLimitA]>>
                  ELSE <<>>
        P1 == IF limited THEN [L.P EXCEPT !.nMem = @ + 2] ELSE L.P
        Lbl(id) == [op |-> "Label", id |-> id]
        Gosub(c) == [op |-> "Gosub", co |-> c, regPrev |-> regPrev,
                     iLimit |-> L.p.iLimit, iOffset |-> L.p.iOffset,
                     eDest |-> dest.eDest, brk |-> labelEnd]
        Yield(c, eof) == [op |-> "Yield", co |-> c, to |-> eof]
        Goto(to) == [op |-> "Goto", to |-> to]
        cPrev == IF op = "TK_ALL" THEN <<>>
                 ELSE <<[op |-> "Integer", n |-> 0, reg |-> regPrev]>>
        cCo == <<[op |-> "InitCoroutine", co |-> "A", rows |-> pPrior.rows,
                  iLimit |-> regLimitA, to |-> addrSelectB],
                 Lbl(addrSelectB),
                 [op |-> "InitCoroutine", co |-> "B", rows |-> p.rows,
                  iLimit |-> regLimitB, to |-> addrInit]>>
        cEofA == IF op \in {"TK_EXCEPT", "TK_INTERSECT"} THEN <<>>
                 ELSE <<Lbl(addrEofA), Gosub("B"), Lbl(addrEofA_noB),
                        Yield("B", labelEnd), Goto(addrEofA)>>
        cEofB == IF op = "TK_INTERSECT" THEN <<>>
                 ELSE <<Lbl(addrEofB), Gosub("A"), Yield("A", labelEnd),
                        Goto(addrEofB)>>
        cAltB == CASE op = "TK_ALL" ->
                        <<Lbl(addrAltB), Lbl(addrAeqB), Gosub("A"),
                          Yield("A", addrEofA), Goto(labelCmpr)>>
                   [] op = "TK_INTERSECT" ->
                        <<Lbl(addrAeqB), Gosub("A"), Lbl(addrAltB),
                          Yield("A", addrEofA), Goto(labelCmpr)>>
                   [] OTHER ->
                        <<Lbl(addrAltB), Gosub("A"), Yield("A", addrEofA),
                          Goto(labelCmpr),
                          Lbl(addrAeqB), Yield("A", addrEofA),
                          Goto(labelCmpr)>>
        cAgtB == <<Lbl(addrAgtB)>>
                 \o (IF op \in {"TK_ALL", "TK_UNION"} THEN <<Gosub("B")>>
                     ELSE <<>>)
                 \o <<Yield("B", addrEofB), Goto(labelCmpr)>>
        cInit == <<Lbl(addrInit), Yield("A", addrEofA_noB),
                   Yield("B", addrEofB)>>
        cCmpr == <<Lbl(labelCmpr),
                   [op |-> "Compare", aPermute |-> pOrderBy,
                    lt |-> addrAltB, eq |-> addrAeqB, gt |-> addrAgtB],
                   Lbl(labelEnd)>>
    IN EmitAll(P1, cPrev \o cLimit \o cCo \o cEofA \o cEofB \o cAltB
                   \o cAgtB \o cInit \o cCmpr)

\* The rows coroutine c yields, and the row it yielded last.
CoRows(c) ==
    LET a == CHOOSE a \in 1..Len(prog) :
                 prog[a].op = "InitCoroutine" /\ prog[a].co = c
    IN prog[a].rows

CoRow(c) == CoRows(c)[co[c]]

\* The LIMIT register of coroutine c (0: none).
CoLimit(c) ==
    LET a == CHOOSE a \in 1..Len(prog) :
                 prog[a].op = "InitCoroutine" /\ prog[a].co = c
    IN prog[a].iLimit

\* The coroutine that has yielded a row runs on from its OP_Yield: the
\* value OP_DecrJumpZero leaves in its LIMIT register (0: the coroutine
\* ends; -1: there is no such register).
CoResume(c) ==
    IF CoLimit(c) # 0 /\ co[c] > 0 THEN regs[CoLimit(c)] - 1 ELSE -1

\* OP_InitCoroutine: set the coroutine up and jump over its body.
InitCoroutine ==
    /\ Running
    /\ prog[pc].op = "InitCoroutine"
    /\ co' = [co EXCEPT ![prog[pc].co] = 0]
    /\ pc' = LabelAddr(prog, prog[pc].to)
    /\ UNCHANGED <<qry, prog, cur, regs, tabs, sorter, out, mem, halt>>
    /\ UNCHANGED <<queue, popped, aggSorter>>

\* A faulty OP_Yield whose end of data ends the program.
Yield_EofEndsProgram ==
    /\ Running
    /\ prog[pc].op = "Yield"
    /\ LET c == prog[pc].co
       IN /\ regs' = IF CoLimit(c) # 0 /\ co[c] > 0
                     THEN [regs EXCEPT ![CoLimit(c)] = CoResume(c)]
                     ELSE regs
          /\ IF co[c] < Len(CoRows(c)) /\ CoResume(c) # 0
             THEN /\ co' = [co EXCEPT ![c] = @ + 1]
                  /\ pc' = SkipLabels(prog, pc + 1)
             ELSE /\ co' = co
                  /\ pc' = Len(prog) + 1
    /\ UNCHANGED <<qry, prog, cur, tabs, sorter, out, mem, halt>>
    /\ UNCHANGED <<queue, popped, aggSorter>>

\* A faulty OP_Yield whose coroutine makes no progress after its first row:
\* it hands out the same row again.
Yield_NoAdvance ==
    /\ Running
    /\ prog[pc].op = "Yield"
    /\ LET c == prog[pc].co
       IN /\ regs' = regs
          /\ IF co[c] < Len(CoRows(c))
             THEN /\ co' = [co EXCEPT ![c] = IF @ = 0 THEN 1 ELSE @]
                  /\ pc' = SkipLabels(prog, pc + 1)
             ELSE /\ co' = [co EXCEPT !.eof = @ \cup {c}]
                  /\ pc' = LabelAddr(prog, prog[pc].to)
    /\ UNCHANGED <<qry, prog, cur, tabs, sorter, out, mem, halt>>
    /\ UNCHANGED <<queue, popped, aggSorter>>

\* A faulty OP_Yield that stays where it is at the end of data, so that the
\* ended coroutine is resumed once more.
Yield_EofRetries ==
    /\ Running
    /\ prog[pc].op = "Yield"
    /\ LET c == prog[pc].co
       IN /\ regs' = IF CoLimit(c) # 0 /\ co[c] > 0
                     THEN [regs EXCEPT ![CoLimit(c)] = CoResume(c)]
                     ELSE regs
          /\ IF co[c] < Len(CoRows(c)) /\ CoResume(c) # 0
             THEN /\ co' = [co EXCEPT ![c] = @ + 1]
                  /\ pc' = SkipLabels(prog, pc + 1)
             ELSE /\ co' = [co EXCEPT !.eof = @ \cup {c}]
                  /\ pc' = IF c \in co.eof THEN LabelAddr(prog, prog[pc].to)
                           ELSE pc
    /\ UNCHANGED <<qry, prog, cur, tabs, sorter, out, mem, halt>>
    /\ UNCHANGED <<queue, popped, aggSorter>>

\* OP_Yield regAddrX, eof: run the coroutine up to its next row; jump to eof
\* when it ends instead.
Yield ==
    /\ Running
    /\ prog[pc].op = "Yield"
    /\ LET c == prog[pc].co
       IN /\ regs' = IF CoLimit(c) # 0 /\ co[c] > 0
                     THEN [regs EXCEPT ![CoLimit(c)] = CoResume(c)]
                     ELSE regs
          /\ IF co[c] < Len(CoRows(c)) /\ CoResume(c) # 0
             THEN /\ co' = [co EXCEPT ![c] = @ + 1]
                  /\ pc' = SkipLabels(prog, pc + 1)
             ELSE /\ co' = [co EXCEPT !.eof = @ \cup {c}]
                  /\ pc' = LabelAddr(prog, prog[pc].to)
    /\ UNCHANGED <<qry, prog, cur, tabs, sorter, out, mem, halt>>
    /\ UNCHANGED <<queue, popped, aggSorter>>

\* OP_Gosub regOutX, addrOutX: the output subroutine and its OP_Return.
GosubOut ==
    /\ Running
    /\ prog[pc].op = "Gosub"
    /\ LET st == generateOutputSubroutine(St, prog[pc], CoRow(prog[pc].co))
       IN /\ regs' = st.regs /\ out' = st.out /\ mem' = st.mem
          /\ pc' = IF st.jump = "break" THEN LabelAddr(prog, prog[pc].brk)
                   ELSE SkipLabels(prog, pc + 1)
    /\ UNCHANGED <<qry, prog, cur, tabs, sorter, halt>>
    /\ UNCHANGED <<co, queue, popped, aggSorter>>

\* A faulty OP_Jump that takes the A<B branch on a tie.
CompareJump_TieAsLess ==
    /\ Running
    /\ prog[pc].op = "Compare"
    /\ LET c == Compare(KeyOf(CoRow("A"), prog[pc].aPermute),
                        KeyOf(CoRow("B"), prog[pc].aPermute))
       IN pc' = LabelAddr(prog, IF c <= 0 THEN prog[pc].lt
                                ELSE prog[pc].gt)
    /\ UNCHANGED <<qry, prog, cur, regs, tabs, sorter, out, mem, halt>>
    /\ UNCHANGED <<co, queue, popped, aggSorter>>

\* OP_Permutation; OP_Compare; OP_Jump addrAltB, addrAeqB, addrAgtB.
CompareJump ==
    /\ Running
    /\ prog[pc].op = "Compare"
    /\ LET c == Compare(KeyOf(CoRow("A"), prog[pc].aPermute),
                        KeyOf(CoRow("B"), prog[pc].aPermute))
       IN pc' = LabelAddr(prog, IF c < 0 THEN prog[pc].lt
                                ELSE IF c = 0 THEN prog[pc].eq
                                ELSE prog[pc].gt)
    /\ UNCHANGED <<qry, prog, cur, regs, tabs, sorter, out, mem, halt>>
    /\ UNCHANGED <<co, queue, popped, aggSorter>>

\* ------------------------------------------------ compound SELECT
\* A compound is a sequence ch of Selects; ch[k - 1] is the pPrior of ch[k]
\* and ch[k].op joins ch[k] to everything on its left.

\* The loop over an ephemeral index whose body is selectInnerLoop(p, ...,
\* srcTab, 0, 0, &dest, iCont, iBreak); probe is the index tested by
\* OP_NotFound before the body (-1: none).
TableLoop(p, srcTab, probe, dest) ==
    [op |-> "InnerLoop", rows |-> <<>>, srcTab |-> srcTab, probe |-> probe,
     rec |-> <<>>, regCurrent |-> 0,
     iLimit |-> p.iLimit, iOffset |-> p.iOffset, eTnct |-> "NOOP",
     tabTnct |-> -1, sort |-> FALSE, desc |-> FALSE, ob |-> "NONE",
     eDest |-> dest.eDest, iParm |-> dest.iSDParm,
              pSO |-> dest.pOrderBy]

RECURSIVE sqlite3Select(_, _, _, _, _)
RECURSIVE multiSelect(_, _, _, _)
RECURSIVE generateWithRecursiveQuery(_, _, _, _)

\* sqlite3Select(pParse, &ch[k], &dest); linked tells whether ch[k].pPrior
\* is attached (multiSelect detaches it while it codes the right term).
sqlite3Select(P, ch, k, linked, dest) ==
    IF linked /\ k > 1
    THEN LET M == multiSelect(P, ch, k, dest)
             Pa == sqlite3VdbeMakeLabel(M.P)
             Pb == IF "SF_SingleRow" \in M.ch[k].selFlags
                      /\ M.ch[k].iLimit # 0
                   THEN vdbe_code_raise_on_multiple_rows(Pa, M.ch[k].iLimit)
                   ELSE Pa
         IN [P |-> sqlite3VdbeResolveLabel(Pb, Pa.nLabel), ch |-> M.ch]
    ELSE LET S == SelectOne(P, ch[k], dest)
         IN [P |-> S.P, ch |-> [ch EXCEPT ![k] = S.p]]

\* generateWithRecursiveQuery: ch[k] is the recursive term, ch[k - 1] the
\* setup query.  L is the outcome of computeLimitRegisters, S that of
\* coding the setup query and R that of coding the recursive term.
generateWithRecursiveQuery(P0, ch, k, dest) ==
    The({
      LET addrBreak == P0.nLabel + 1
          regLimit == L.p.iLimit
          regOffset == L.p.iOffset
          pOrderBy == ch[k].pOrderBy
          isUnion == ch[k].op = "TK_UNION"
          iQueue == L.P.nTab
          iDistinct == iQueue + 1
          destQueue ==
              [eDest |-> IF isUnion
                         THEN IF pOrderBy # "NONE" THEN "SRT_DistQueue"
                              ELSE "SRT_DistFifo"
                         ELSE IF pOrderBy # "NONE" THEN "SRT_Queue"
                              ELSE "SRT_Fifo",
               iSDParm |-> iQueue, pOrderBy |-> pOrderBy]
          regCurrent == L.P.nMem + 1
          Pb == EmitAll([L.P EXCEPT
                            !.nTab = IF isUnion THEN @ + 2 ELSE @ + 1,
                            !.nMem = regCurrent],
                    <<[op |-> "OpenQueue"]>>
                    \o (IF isUnion
                        THEN <<[op |-> "OpenEphemeral", tab |-> iDistinct]>>
                        ELSE <<>>))
          \* p->pLimit, p->pOffset, p->iLimit, p->iOffset and p->pOrderBy
          \* are cleared while the two terms are coded
          ch1 == [ch EXCEPT ![k] = [L.p EXCEPT !.pLimit = NoLimit,
                                               !.pOffset = NoOffset,
                                               !.iLimit = 0, !.iOffset = 0,
                                               !.pOrderBy = "NONE",
                                               !.regCurrent = regCurrent]]
      IN The({
           LET addrTop == Len(S.P.prog) + 1
               addrCont == S.P.nLabel + 1
               Pd == EmitAll(sqlite3VdbeMakeLabel(S.P),
                       <<[op |-> "Rewind", to |-> addrBreak,
                          regCurrent |-> regCurrent],
                         [op |-> "OutputCurrent", regCurrent |-> regCurrent,
                          regOffset |-> regOffset, regLimit |-> regLimit,
                          I |-> TableLoop(S.ch[k], -1, -1, dest),
                          cont |-> addrCont, brk |-> addrBreak],
                         [op |-> "Label", id |-> addrCont]>>)
           IN The({
                [P |-> EmitAll(R.P, <<[op |-> "Goto", to |-> 0,
                                       addr |-> addrTop],
                                      [op |-> "Label", id |-> addrBreak]>>),
                 ch |-> [R.ch EXCEPT ![k].pOrderBy = pOrderBy,
                                     ![k].pLimit = ch[k].pLimit,
                                     ![k].pOffset = ch[k].pOffset]] :
                   R \in {sqlite3Select(Pd, S.ch, k, FALSE, destQueue)}}) :
             S \in {sqlite3Select(Pb, ch1, k - 1, TRUE, destQueue)}}) :
        L \in {computeLimitRegisters(sqlite3VdbeMakeLabel(P0), ch[k],
                                     P0.nLabel + 1)}})

\* multiSelect; a recursive query goes to generateWithRecursiveQuery, any
\* other compound with an ORDER BY to multiSelectOrderBy.
multiSelect(P, ch, k, dest) ==
    CASE "SF_Recursive" \in ch[k].selFlags ->
        generateWithRecursiveQuery(P, ch, k, dest)
      [] ch[k].pOrderBy # "NONE" ->
        [P |-> multiSelectOrderBy(P, ch[k], ch[k - 1], dest), ch |-> ch]
      [] ch[k].op = "TK_ALL" ->
        LET ch1 == [ch EXCEPT ![k - 1].iLimit = ch[k].iLimit,
                              ![k - 1].iOffset = ch[k].iOffset,
                              ![k - 1].pLimit = ch[k].pLimit,
                              ![k - 1].pOffset = ch[k].pOffset]
            L == sqlite3Select(P, ch1, k - 1, TRUE, dest)
            ch2 == [L.ch EXCEPT ![k].pLimit = NoLimit,
                                ![k].pOffset = NoOffset,
                                ![k].iLimit = L.ch[k - 1].iLimit,
                                ![k].iOffset = L.ch[k - 1].iOffset]
            Pa == sqlite3VdbeMakeLabel(L.P)
            addr == Pa.nLabel
            Pb == IF ch2[k].iLimit = 0 THEN Pa
                  ELSE EmitAll(Pa,
                         <<[op |-> "IfNot", reg |-> ch2[k].iLimit,
                            to |-> addr]>> \o
                         (IF ch2[k].iOffset = 0 THEN <<>>
                          ELSE <<[op |-> "OffsetLimit",
                                  lim |-> ch2[k].iLimit,
                                  res |-> ch2[k].iOffset + 1,
                                  off |-> ch2[k].iOffset]>>))
            R == sqlite3Select(Pb, ch2, k, FALSE, dest)
        IN [P |-> sqlite3VdbeResolveLabel(R.P, addr), ch |-> R.ch]
      [] ch[k].op \in {"TK_UNION", "TK_EXCEPT"} ->
        LET reuse == dest.eDest = "SRT_Union"
            unionTab == IF reuse THEN dest.iSDParm ELSE P.nTab
            Pa == IF reuse THEN P
                  ELSE sqlite3VdbeAddOp([P EXCEPT !.nTab = @ + 1],
                           [op |-> "OpenEphemeral", tab |-> unionTab])
            L == sqlite3Select(Pa, ch, k - 1, TRUE,
                     [eDest |-> "SRT_Union", iSDParm |-> unionTab,
                      pOrderBy |-> "NONE"])
            ch1 == [L.ch EXCEPT ![k].pLimit = NoLimit,
                                ![k].pOffset = NoOffset]
            R == sqlite3Select(L.P, ch1, k, FALSE,
                     [eDest |-> IF ch[k].op = "TK_EXCEPT" THEN "SRT_Except"
                                ELSE "SRT_Union",
                      iSDParm |-> unionTab,
                      pOrderBy |-> "NONE"])
            ch2 == [R.ch EXCEPT ![k].pOrderBy = "NONE",
                                ![k].pLimit = ch[k].pLimit,
                                ![k].pOffset = ch[k].pOffset,
                                ![k].iLimit = 0, ![k].iOffset = 0]
            Pb == sqlite3VdbeMakeLabel(R.P)
            iBreak == Pb.nLabel
            C == computeLimitRegisters(Pb, ch2[k], iBreak)
        IN IF reuse THEN [P |-> R.P, ch |-> ch2]
           ELSE [P |-> sqlite3VdbeResolveLabel(
                           sqlite3VdbeAddOp(C.P,
                               TableLoop(C.p, unionTab, -1, dest)),
                           iBreak),
                 ch |-> [ch2 EXCEPT ![k] = C.p]]
      [] OTHER -> \* TK_INTERSECT
        LET tab1 == P.nTab
            tab2 == P.nTab + 1
            Pa == sqlite3VdbeAddOp([P EXCEPT !.nTab = @ + 2],
                      [op |-> "OpenEphemeral", tab |-> tab1])
            L == sqlite3Select(Pa, ch, k - 1, TRUE,
                     [eDest |-> "SRT_Union", iSDParm |-> tab1,
                      pOrderBy |-> "NONE"])
            Pb == sqlite3VdbeAddOp(L.P,
                      [op |-> "OpenEphemeral", tab |-> tab2])
            ch1 == [L.ch EXCEPT ![k].pLimit = NoLimit,
                                ![k].pOffset = NoOffset]
            R == sqlite3Select(Pb, ch1, k, FALSE,
                     [eDest |-> "SRT_Union", iSDParm |-> tab2,
                      pOrderBy |-> "NONE"])
            ch2 == [R.ch EXCEPT ![k].pLimit = ch[k].pLimit,
                                ![k].pOffset = ch[k].pOffset]
            Pc == sqlite3VdbeMakeLabel(R.P)
            iBreak == Pc.nLabel
            C == computeLimitRegisters(Pc, ch2[k], iBreak)
        IN [P |-> sqlite3VdbeResolveLabel(
                      sqlite3VdbeAddOp(C.P, TableLoop(C.p, tab1, tab2, dest)),
                      iBreak),
            ch |-> [ch2 EXCEPT ![k] = C.p]]

\* A term of a compound: a plain SELECT delivering rows.
Term(rows, op) ==
    MkSelect(rows, op, {}, NoLimit, NoOffset, "NONE", 0, "UNORDERED")

CompoundOps == {"TK_ALL", "TK_UNION", "TK_EXCEPT", "TK_INTERSECT"}

\* The two- and three-term compounds whose terms deliver, left to right,
\* the pieces s[1..i], s[i+1..j], s[j+1..] of s, joined by op2 and op3.
Chain(s, i, j, n, op2, op3) ==
    IF n = 2
    THEN <<Term(SubSeq(s, 1, i), "TK_SELECT"),
           Term(SubSeq(s, i + 1, Len(s)), op2)>>
    ELSE <<Term(SubSeq(s, 1, i), "TK_SELECT"),
           Term(SubSeq(s, i + 1, j), op2),
           Term(SubSeq(s, j + 1, Len(s)), op3)>>

\* The statement with LIMIT/OFFSET attached to its right-most term.
WithLimit(ch, lim, off) ==
    [ch EXCEPT ![Len(ch)].pLimit = lim, ![Len(ch)].pOffset = off]

InitCompound ==
    \E s \in SeqsUpTo(0..MaxVal, MaxRows), n \in {2, 3},
       op2 \in CompoundOps, op3 \in CompoundOps :
      \E i \in 0..Len(s) :
        \E j \in i..Len(s) :
          /\ n = 2 => (j = Len(s) /\ op3 = "TK_ALL")
          /\ qry = [terms |-> Chain(s, i, j, n, op2, op3),
                    dest |-> DestOutput]
          /\ Load(sqlite3Select(Parse0, Chain(s, i, j, n, op2, op3), n,
                                TRUE, DestOutput).P)

NextCompound ==
    \/ StepOp
    \/ InnerLoopRow
    \/ InnerLoopEnd

SpecCompound == InitCompound /\ [][NextCompound]_vars

\* Number of occurrences of x in s.
Count(s, x) == Cardinality({i \in 1..Len(s) : s[i] = x})

SameBag(s, t) ==
    /\ Range(s) = Range(t)
    /\ \A x \in Range(s) : Count(s, x) = Count(t, x)

\* The mathematical result of X op Y, as a sequence.
SetOp(op, X, Y) ==
    CASE op = "TK_ALL" -> X \o Y
      [] op = "TK_UNION" -> SortedSeq(Range(X) \cup Range(Y))
      [] op = "TK_EXCEPT" -> SortedSeq(Range(X) \ Range(Y))
      [] OTHER -> SortedSeq(Range(X) \cap Range(Y))

\* The left-associative value of the first k terms of ch.
RECURSIVE ChainValue(_, _)
ChainValue(ch, k) ==
    IF k = 1 THEN ch[1].rows
    ELSE SetOp(ch[k].op, ChainValue(ch, k - 1), ch[k].rows)

\* C1: without ORDER BY, LIMIT and OFFSET a compound routes, with the right
\* multiplicities, the rows of the left-associative set expression; a pure
\* UNION ALL routes the left rows followed by the right rows.
C1_CompoundSetOps ==
    Finished =>
        /\ SameBag(out, ChainValue(qry.terms, Len(qry.terms)))
        /\ (\A k \in 2..Len(qry.terms) : qry.terms[k].op = "TK_ALL")
               => out = ChainValue(qry.terms, Len(qry.terms))

\* C1 witness: (A EXCEPT B) UNION C, where right-to-left evaluation would
\* give a different answer, has been evaluated.
C1_Witness ==
    /\ Finished
    /\ Len(qry.terms) = 3
    /\ qry.terms[2].op = "TK_EXCEPT" /\ qry.terms[3].op = "TK_UNION"
    /\ qry.terms[1].rows = <<1>> /\ qry.terms[2].rows = <<1>>
    /\ qry.terms[3].rows = <<1>>
    /\ out = <<1>>

\* ------------------------------------ UNION ALL with LIMIT and OFFSET
IntLimits == [has : {TRUE}, n : -1..MaxLimit, isInt : {TRUE}, sys : {FALSE}]

InitUnionAll ==
    \E s \in SeqsUpTo(0..MaxVal, MaxRows), n \in {2, 3},
       lim \in IntLimits, off \in Offsets :
      \E i \in 0..Len(s) :
        \E j \in i..Len(s) :
          /\ n = 2 => j = Len(s)
          /\ qry = [terms |-> WithLimit(Chain(s, i, j, n, "TK_ALL", "TK_ALL"),
                                        lim, off),
                    dest |-> DestOutput]
          /\ Load(sqlite3Select(Parse0,
                      WithLimit(Chain(s, i, j, n, "TK_ALL", "TK_ALL"),
                                lim, off),
                      n, TRUE, DestOutput).P)

NextUnionAll ==
    \/ StepOp
    \/ InnerLoopRow
    \/ InnerLoopEnd

SpecUnionAll == InitUnionAll /\ [][NextUnionAll]_vars

\* The addresses of the loops of the program, left term first.
LoopAddrs == {a \in 1..Len(prog) : prog[a].op = "InnerLoop"}

\* All terms of the UNION ALL use one LIMIT and one OFFSET register.
SharedCounters ==
    \A a, b \in LoopAddrs :
        /\ prog[a].iLimit = prog[b].iLimit /\ prog[a].iLimit # 0
        /\ prog[a].iOffset = prog[b].iOffset

\* A term to the right of the first one is entered only with a LIMIT counter
\* that is not zero.
RightTermGuarded ==
    (Running /\ pc \in LoopAddrs /\ \E a \in LoopAddrs : a < pc)
        => regs[prog[pc].iLimit] # 0

\* The rows routed at the end are rows [m, m+n) of the concatenation.
UnionAllWindow ==
    (Finished /\ qry.terms[Len(qry.terms)].pOffset.m >= 0)
        => out = Window(ChainValue(qry.terms, Len(qry.terms)),
                        qry.terms[Len(qry.terms)].pLimit.n,
                        qry.terms[Len(qry.terms)].pOffset.m)

\* A row that is skipped costs one unit of the OFFSET counter and nothing of
\* the LIMIT counter; a row that is routed costs one unit of the LIMIT
\* counter and nothing of the OFFSET counter.
CountersStep ==
    (Running /\ pc \in LoopAddrs /\ cur <= Len(LoopRows(prog[pc])))
        => LET L == prog[pc].iLimit
               O == prog[pc].iOffset
           IN IF out' = out
              THEN /\ O # 0 /\ regs'[O] = regs[O] - 1
                   /\ regs'[L] = regs[L]
              ELSE /\ out' = Append(out, LoopRows(prog[pc])[cur])
                   /\ regs'[L] = regs[L] - 1
                   /\ O # 0 => regs'[O] = regs[O]

\* C4: a UNION ALL with LIMIT n OFFSET m shares one LIMIT and one OFFSET
\* counter between its terms, each skipped row decrements OFFSET once, each
\* routed row decrements LIMIT once, a right term is not run once the LIMIT
\* counter is zero, and the rows routed are rows [m, m+n) of the
\* concatenation.
C4_UnionAllLimit ==
    /\ [](SharedCounters /\ RightTermGuarded /\ UnionAllWindow)
    /\ [][CountersStep]_vars

\* C4 witness: the OFFSET was used up inside the left term, the LIMIT was
\* reached inside the right term, and rows of both terms were routed.
C4_Witness ==
    /\ Finished
    /\ Len(qry.terms) = 2
    /\ qry.terms[1].rows = <<0, 1>> /\ qry.terms[2].rows = <<2>>
    /\ qry.terms[2].pLimit.n = 2 /\ qry.terms[2].pOffset.m = 1
    /\ qry.terms[2].pOffset.has
    /\ out = <<1, 2>>

\* ------------------------------------------------ scalar subquery
\* The code generator of expressions hands a scalar subquery without a
\* LIMIT of its own to sqlite3Select with a LIMIT 1 marked EP_System and
\* with SF_SingleRow set on the (right-most) Select; the destination is a
\* register (SRT_Mem).
SystemLimit == [has |-> TRUE, n |-> 1, isInt |-> TRUE, sys |-> TRUE]

DestMem == [eDest |-> "SRT_Mem", iSDParm |-> 0,
                      pOrderBy |-> "NONE"]

AsScalar(ch) ==
    [ch EXCEPT ![Len(ch)].pLimit = SystemLimit,
               ![Len(ch)].selFlags = @ \cup {"SF_SingleRow"}]

ScalarStatements ==
    {<<SimpleSelect(c)>> :
        c \in {d \in SimpleShapes : ~d.lim.has /\ ~d.off.has}}
    \cup
    UNION {{Chain(s, i, Len(s), 2, op2, "TK_ALL") :
               i \in 0..Len(s), op2 \in CompoundOps} :
           s \in SeqsUpTo(0..MaxVal, MaxRows)}

InitScalar ==
    \E ch \in ScalarStatements :
        /\ qry = [terms |-> AsScalar(ch), dest |-> DestMem]
        /\ Load(sqlite3Select(Parse0, AsScalar(ch), Len(ch), TRUE,
                              DestMem).P)

NextScalar ==
    \/ StepOp
    \/ InnerLoopRow
    \/ InnerLoopEnd
    \/ SortTailRow
    \/ SortTailEnd

SpecScalar == InitScalar /\ [][NextScalar]_vars

\* The number of rows the statement produces when nothing limits it.
Produced ==
    IF Len(qry.terms) = 1 THEN Len(LogicalResult(qry.terms[1]))
    ELSE Len(ChainValue(qry.terms, Len(qry.terms)))

\* C6 (as claimed): the scalar subquery halts with 'Expression subquery
\* returned more than 1 row' exactly when it produces more than one row.
C6_RaiseIffMultipleRows ==
    /\ halt = ErrMultipleRows => Produced > 1
    /\ Finished => Produced <= 1

\* ------------------------------------------------ the ordered merge
\* rows are in the order of the ORDER BY list ob
InKeyOrder(rows, ob) ==
    \A i \in 1..(Len(rows) - 1) :
        Compare(KeyOf(rows[i], ob), KeyOf(rows[i + 1], ob)) <= 0

\* ORDER BY lists over the two result columns.
OrderBys == {<<1>>, <<2>>, <<1, 2>>, <<2, 1>>}

\* The ORDER BY list the two coroutines sort by.
MergeOrderBy(op, ob) ==
    IF op = "TK_ALL" THEN ob ELSE ExtendOrderBy(ob, 1, 2)

MergeRight(B, op, ob) == [Term(B, op) EXCEPT !.pOrderBy = ob]

InitMerge ==
    \E A \in SeqsUpTo(0..MaxVal, MaxRows), B \in SeqsUpTo(0..MaxVal, MaxRows),
       op \in CompoundOps, ob \in OrderBys :
        /\ InKeyOrder(A, MergeOrderBy(op, ob))
        /\ InKeyOrder(B, MergeOrderBy(op, ob))
        /\ qry = [terms |-> <<Term(A, "TK_SELECT"), MergeRight(B, op, ob)>>,
                  dest |-> DestOutput]
        /\ Load(multiSelectOrderBy(Parse0, MergeRight(B, op, ob),
                                   Term(A, "TK_SELECT"), DestOutput))

NextMerge ==
    \/ StepOp
    \/ InitCoroutine
    \/ Yield
    \/ GosubOut
    \/ CompareJump

SpecMerge == InitMerge /\ [][NextMerge]_vars

\* Stable insertion sort of s by the ORDER BY list ob.
RECURSIVE SortByKey(_, _)
SortByKey(s, ob) ==
    IF s = <<>> THEN <<>>
    ELSE LET r == SortByKey(SubSeq(s, 1, Len(s) - 1), ob)
             x == s[Len(s)]
             n == Cardinality({i \in 1..Len(r) :
                      Compare(KeyOf(r[i], ob), KeyOf(x, ob)) <= 0})
         IN SubSeq(r, 1, n) \o <<x>> \o SubSeq(r, n + 1, Len(r))

\* Reference: materialise both inputs into one relation, apply the
\* operator, sort by the merge key.
MergeReference(op, A, B, ob) ==
    CASE op = "TK_ALL" -> SortByKey(A \o B, ob)
      [] op = "TK_UNION" ->
             SortByKey(SortedSeq(Range(A) \cup Range(B)), ob)
      [] op = "TK_EXCEPT" ->
             SortByKey(SortedSeq(Range(A) \ Range(B)), ob)
      [] OTHER -> SortByKey(SortedSeq(Range(A) \cap Range(B)), ob)

\* C2: for each of the four operators and all inputs that arrive in ORDER BY
\* order, the rows output by the merge driver are, in order, those of the
\* reference that materialises both inputs, applies the operator and sorts
\* by the merge key.
C2_MergeEqualsReference ==
    Finished =>
        out = MergeReference(qry.terms[2].op, qry.terms[1].rows,
                  qry.terms[2].rows,
                  MergeOrderBy(qry.terms[2].op, qry.terms[2].pOrderBy))

\* C2 witness: an EXCEPT merged inputs with a duplicate inside the left
\* side and a tie between the sides.
C2_Witness ==
    /\ Finished
    /\ qry.terms[2].op = "TK_EXCEPT"
    /\ qry.terms[2].pOrderBy = <<2>>
    /\ qry.terms[1].rows = <<0, 0, 1>>
    /\ qry.terms[2].rows = <<2, 1>>
    /\ out = <<0>>

\* ------------------------------------------------ the grouped SELECT
\* Largest threshold of HAVING count(*) >= h.
MaxHaving == 2

\* rows of one group are adjacent (what sqlite3WhereIsOrdered promises)
Grouped(rows, gb) ==
    \A i, j \in 1..Len(rows) :
        (i < j /\ GroupKey(rows[i], gb) = GroupKey(rows[j], gb))
            => \A k \in i..j : GroupKey(rows[k], gb) = GroupKey(rows[i], gb)

GroupShapes ==
    {c \in [rows : SeqsUpTo(0..MaxVal, MaxRows), gb : {"COL1", "SAME"},
            h : 0..MaxHaving, nGBSat : {0, 1}] :
        c.nGBSat = 1 => Grouped(c.rows, c.gb)}

GroupSelect(c) ==
    [MkSelect(c.rows, "TK_SELECT", {"SF_Aggregate"}, NoLimit, NoOffset,
              "NONE", 0, "UNORDERED")
        EXCEPT !.pGroupBy = c.gb, !.pHaving = c.h, !.nGBSat = c.nGBSat]

InitGroupBy ==
    \E c \in GroupShapes :
        /\ qry = [terms |-> <<GroupSelect(c)>>, dest |-> DestOutput]
        /\ Load(SelectOne(Parse0, GroupSelect(c), DestOutput).P)

NextGroupBy ==
    \/ StepOp
    \/ GroupOp
    \/ SorterLoopRow
    \/ SorterLoopEnd
    \/ GroupLoopRow
    \/ GroupLoopEnd

SpecGroupBy == InitGroupBy /\ [][NextGroupBy]_vars

\* The group keys of p whose group satisfies HAVING.
QualifyingGroups(p) ==
    {k \in {GroupKey(p.rows[i], p.pGroupBy) : i \in 1..Len(p.rows)} :
        \/ p.pHaving = 0
        \/ Cardinality({i \in 1..Len(p.rows) :
               GroupKey(p.rows[i], p.pGroupBy) = k}) >= p.pHaving}

\* The keys of the groups the loop at pc has read completely: those of the
\* rows before the cursor, except the group being accumulated.
ClosedGroups ==
    {GroupKey(GroupRows(prog[pc])[i], prog[pc].gb) : i \in 1..(cur - 1)}
        \ {regs[prog[pc].iAMem]}

\* C5: a GROUP BY query without LIMIT, OFFSET and DISTINCT routes exactly one
\* row for every group key whose group satisfies HAVING, whether the rows
\* come grouped from the scan or through the sorter; a group is routed when
\* its key changes or at the end of the input, and an empty input routes
\* nothing.
C5_GroupByRowCount ==
    /\ Finished =>
           /\ Len(out) = Cardinality(QualifyingGroups(qry.terms[1]))
           /\ Range(out) = QualifyingGroups(qry.terms[1])
    /\ (Running /\ prog[pc].op = "GroupLoop") =>
           /\ Range(out) = ClosedGroups \cap QualifyingGroups(qry.terms[1])
           /\ Len(out) = Cardinality(Range(out))

\* C5 witness: three rows in two groups went through the sorter and only
\* the group of two rows passed HAVING count(*) >= 2.
C5_Witness ==
    /\ Finished
    /\ qry.terms[1].rows = <<0, 2, 1>>
    /\ qry.terms[1].pGroupBy = "COL1"
    /\ qry.terms[1].nGBSat = 0
    /\ qry.terms[1].pHaving = 2
    /\ out = <<0>>

\* ---------------------------------- DISTINCT with an identical ORDER BY
\* SELECT DISTINCT xyz ... ORDER BY xyz.  The plans of the rewritten
\* statement: the GROUP BY must sort ("sort"), the scan delivers the groups
\* together in some order ("grouped"), or in ORDER BY order ("sorted").
DistinctShapes ==
    {c \in [rows : SeqsUpTo(0..MaxVal, MaxRows),
            plan : {"sort", "grouped", "sorted"},
            lim : {NoLimit} \cup IntLimits,
            off : {o \in Offsets : o.m >= 0}] :
        /\ c.off.has => c.lim.has
        /\ c.plan = "grouped" => Grouped(c.rows, "SAME")
        /\ c.plan = "sorted" => InOrder(c.rows, "SAME")}

DistinctSelect(c) ==
    [MkSelect(c.rows, "TK_SELECT", {"SF_Distinct"}, c.lim, c.off, "SAME",
              0, "UNORDERED")
        EXCEPT !.nGBSat = IF c.plan = "sort" THEN 0 ELSE 1,
               !.isSorted = (c.plan = "sorted")]

\* rewritten = FALSE is the reference run: the code sqlite3Select generates
\* for the statement when DistinctToGroupBy is left out.
InitDistinct ==
    \E c \in DistinctShapes, rewritten \in BOOLEAN :
        /\ qry = [terms |-> <<DistinctSelect(c)>>, dest |-> DestOutput,
                  rewritten |-> rewritten]
        /\ Load(IF rewritten
                THEN SelectOne(Parse0, DistinctSelect(c), DestOutput).P
                ELSE SelectSimple(Parse0, DistinctSelect(c), DestOutput).P)

NextDistinct ==
    \/ StepOp
    \/ InnerLoopRow
    \/ InnerLoopEnd
    \/ GroupOp
    \/ SorterLoopRow
    \/ SorterLoopEnd
    \/ GroupLoopRow
    \/ GroupLoopEnd
    \/ SortTailRow
    \/ SortTailEnd

SpecDistinct == InitDistinct /\ [][NextDistinct]_vars

\* The rows and their order common to both forms of the statement.
DistinctResult(p) ==
    IF p.pLimit.has
    THEN Window(LogicalResult(p), p.pLimit.n, p.pOffset.m)
    ELSE LogicalResult(p)

\* C10: SELECT DISTINCT xyz ... ORDER BY xyz is coded as a GROUP BY with the
\* DISTINCT flag cleared, and the rewritten code routes the same rows in the
\* same order as the code of the unrewritten statement.
C10_DistinctAsGroupBy ==
    /\ DistinctToGroupBy(qry.terms[1]).pGroupBy = "SAME"
    /\ "SF_Distinct" \notin DistinctToGroupBy(qry.terms[1]).selFlags
    /\ qry.rewritten => \E a \in 1..Len(prog) : prog[a].op = "GroupLoop"
    /\ Finished => out = DistinctResult(qry.terms[1])

\* C10 witness: the rewritten statement read groups that were together but
\* not in order, with duplicates, and routed them in ORDER BY order.
C10_Witness ==
    /\ Finished
    /\ qry.rewritten
    /\ qry.terms[1].rows = <<2, 2, 0>>
    /\ qry.terms[1].nGBSat = 1 /\ ~qry.terms[1].isSorted
    /\ ~qry.terms[1].pLimit.has
    /\ out = <<0, 2>>

\* --------------------------------------------------- the recursive query
\* setup UNION [ALL] recursive-term [ORDER BY] [LIMIT [OFFSET]]: the setup
\* query delivers c.setup; for the row x in Current the recursive term
\* delivers c.rec[x].
RecursiveShapes ==
    {c \in [setup : SeqsUpTo(0..MaxRecVal, MaxSetupRows),
            rec : [0..MaxRecVal -> SeqsUpTo(0..MaxRecVal, MaxRecRows)],
            op : {"TK_ALL", "TK_UNION"}, ob : {"NONE", "SAME"},
            lim : Limits, off : Offsets] :
        c.off.has => c.lim.has}

RecursiveSelect(c) ==
    <<Term(c.setup, "TK_SELECT"),
      [Term(<<>>, c.op) EXCEPT !.selFlags = {"SF_Recursive"},
                               !.rec = c.rec, !.pOrderBy = c.ob,
                               !.pLimit = c.lim, !.pOffset = c.off]>>

InitRecursive ==
    \E c \in RecursiveShapes :
        /\ qry = [terms |-> RecursiveSelect(c), dest |-> DestOutput]
        /\ Load(sqlite3Select(Parse0, RecursiveSelect(c), 2, TRUE,
                              DestOutput).P)

NextRecursive ==
    \/ StepOp
    \/ InnerLoopRow
    \/ InnerLoopEnd
    \/ QueueOpen
    \/ QueueRewind
    \/ CurrentRow

SpecRecursive == InitRecursive /\ [][NextRecursive]_vars

\* The interpreter runs the program as long as it can.
SpecRecursiveFair == SpecRecursive /\ WF_vars(NextRecursive)

\* The recursive query has LIMIT n with n >= 0.
Limited == qry.terms[2].pLimit.has /\ qry.terms[2].pLimit.n >= 0

LimitValue == qry.terms[2].pLimit.n

OffsetValue == IF qry.terms[2].pOffset.has THEN qry.terms[2].pOffset.m ELSE 0

\* C7 as stated: with LIMIT n >= 0 and OFFSET m the queue loop ends after
\* at most m + n extractions from the queue, and at most n rows reach the
\* destination.
C7_PopsWithinOffsetPlusLimit ==
    /\ [](Limited => /\ Len(popped) <= OffsetValue + LimitValue
                      /\ Len(out) <= LimitValue)
    /\ [](Limited => <>Finished)

\* C7: with LIMIT n >= 0 and OFFSET m the queue loop ends, whatever the
\* recursive term delivers, after at most max(m, 0) + n extractions from
\* the queue, and at most n rows reach the destination.
C7_RecursiveLimit ==
    /\ [](Limited => /\ Len(popped) <= Max(OffsetValue, 0) + LimitValue
                      /\ Len(out) <= LimitValue)
    /\ [](Limited => <>Finished)

\* The loop was ended by the LIMIT after OFFSET + LIMIT extractions while
\* the recursive term, which returns its input row, had refilled the queue.
C7_Witness ==
    /\ Finished
    /\ qry.terms[2].rec = [x \in 0..MaxRecVal |-> <<x>>]
    /\ qry.terms[2].op = "TK_ALL"
    /\ LimitValue = 2 /\ qry.terms[2].pLimit.has
    /\ OffsetValue = 1
    /\ Len(popped) = 3
    /\ Len(out) = 2
    /\ queue # <<>>

\* C8: in a recursive query joined by UNION no row is added to the queue
\* twice (every row ever added is in the queue or was extracted from it),
\* and no row reaches the destination twice.
C8_RecursiveUnionNoRepeat ==
    qry.terms[2].op = "TK_UNION" =>
        /\ NoDups(popped \o queue)
        /\ NoDups(out)

\* The setup query delivered the same row twice and the recursive term
\* delivered rows that had been in the queue before; each row was
\* extracted and output once.
C8_Witness ==
    /\ Finished
    /\ qry.terms[2].op = "TK_UNION"
    /\ qry.terms[1].rows = <<0, 0>>
    /\ qry.terms[2].rec = [x \in 0..MaxRecVal |-> <<(x + 1) % 2>>]
    /\ ~qry.terms[2].pLimit.has
    /\ popped = <<0, 1>>
    /\ out = <<0, 1>>

\* ------------------------------------------------- subquery flattening
\* A statement is a sequence of Select terms (the pPrior chain, right-most
\* term last).  A column holds a value in 0..MaxFVal.  An expression is a
\* column of the FROM item with cursor iTable under a chain of unary minus
\* operators (-v is MaxFVal - v); a WHERE or HAVING clause is a sequence
\* of conjuncts e >= k.  A grouped term returns its GROUP BY expression and
\* HAVING is count(*) >= cnt together with the conjuncts conj.  (The model
\* has no subquery expressions, so restriction (2b) never applies.)
MaxFVal == 1
\* Longest base table in the FROM clause of the subquery.
MaxFRows == 2

FVals == 0..MaxFVal

Column(iTable) == [iTable |-> iTable, ops |-> <<>>]

Minus(e) == [e EXCEPT !.ops = Append(@, "TK_UMINUS")]

NoExprList == [has |-> FALSE, e |-> Column(0), iOrderByCol |-> 0]

\* substExpr: every reference to a column of table iTable becomes a copy of
\* the result expression pEList of the subquery.
substExpr(pExpr, iTable, pEList) ==
    IF pExpr.iTable = iTable
    THEN [iTable |-> pEList.iTable, ops |-> pEList.ops \o pExpr.ops]
    ELSE pExpr

\* substExpr on a conjunction of comparisons.
substWhere(pWhere, iTable, pEList) ==
    [i \in 1..Len(pWhere) |->
        [pWhere[i] EXCEPT !.e = substExpr(@, iTable, pEList)]]

\* substExprList on the one-term lists of the model.
substExprList(pList, iTable, pEList) ==
    [pList EXCEPT !.e = substExpr(@, iTable, pEList)]

\* substSelect(pParse, p, iTable, pEList, 0); the FROM clause of p holds no
\* subquery any more.
substSelect(p, iTable, pEList) ==
    [p EXCEPT !.pEList = substExpr(@, iTable, pEList),
              !.pGroupBy = substExprList(@, iTable, pEList),
              !.pOrderBy = substExprList(@, iTable, pEList),
              !.pHaving.conj = substWhere(@, iTable, pEList),
              !.pWhere = substWhere(@, iTable, pEList)]

\* The restrictions of flattenSubquery, in the order of the code: TRUE when
\* flattening is refused.  p is the outer term, sub the subquery (a chain).
FlattenRefused(p, iFrom, isAgg, subqueryIsAgg) ==
    LET pSrc == p.pSrc
        pSubitem == pSrc[iFrom]
        sub == pSubitem.pSelect
        pSub == sub[Len(sub)]
    IN \/ subqueryIsAgg /\ (isAgg \/ Len(pSrc) > 1)          \* (1) (2a)
       \/ pSub.pLimit.has /\ p.pLimit.has                    \* (13)
       \/ pSub.pOffset.has                                   \* (14)
       \/ "SF_Compound" \in p.selFlags /\ pSub.pLimit.has    \* (15)
       \/ Len(pSub.pSrc) = 0                                 \* (7)
       \/ "SF_Distinct" \in pSub.selFlags                    \* (5)
       \/ pSub.pLimit.has /\ (Len(pSrc) > 1 \/ isAgg)        \* (8) (9)
       \/ "SF_Distinct" \in p.selFlags /\ subqueryIsAgg      \* (6)
       \/ p.pOrderBy.has /\ pSub.pOrderBy.has                \* (11)
       \/ isAgg /\ pSub.pOrderBy.has                         \* (16)
       \/ pSub.pLimit.has /\ p.pWhere # <<>>                 \* (19)
       \/ pSub.pLimit.has /\ "SF_Distinct" \in p.selFlags    \* (21)
       \/ pSub.selFlags \cap {"SF_Recursive", "SF_MinMaxAgg"} # {}
                                                             \* (22) (24)
       \/ "SF_Recursive" \in p.selFlags /\ Len(sub) > 1      \* (23)
       \/ pSubitem.jointype = "JT_OUTER"                     \* (3)
       \/ /\ Len(sub) > 1                                    \* (17)
          /\ \/ isAgg \/ "SF_Distinct" \in p.selFlags \/ Len(pSrc) # 1
             \/ \E j \in 1..Len(sub) :
                   \/ sub[j].pOrderBy.has                    \* (20)
                   \/ sub[j].selFlags
                          \cap {"SF_Distinct", "SF_Aggregate"} # {}
                   \/ j > 1 /\ sub[j].op # "TK_ALL"
                   \/ Len(sub[j].pSrc) < 1
             \/ p.pOrderBy.has /\ p.pOrderBy.iOrderByCol = 0 \* (18)

\* The body of the loop "for (pParent = p; pParent; ...)" of
\* flattenSubquery for one pair of a parent term and a subquery term; pSrc
\* is the FROM clause the parent ends up with.
FlattenTerm(pParent, pSub, pSrc, iParent, subqueryIsAgg) ==
    LET p1 == [pParent EXCEPT
                 !.pSrc = pSrc,
                 !.pOrderBy = IF pSub.pOrderBy.has
                              THEN [pSub.pOrderBy EXCEPT !.iOrderByCol = 0]
                              ELSE @,
                 !.pWhere = IF subqueryIsAgg THEN pSub.pWhere
                            ELSE pSub.pWhere \o @,
                 !.pHaving = IF subqueryIsAgg
                             THEN [cnt |-> pSub.pHaving.cnt,
                                   conj |-> pSub.pHaving.conj
                                            \o pParent.pWhere]
                             ELSE @,
                 !.pGroupBy = IF subqueryIsAgg THEN pSub.pGroupBy ELSE @]
        p2 == substSelect(p1, iParent, pSub.pEList)
    IN [p2 EXCEPT !.selFlags = @ \cup (pSub.selFlags \cap {"SF_Distinct"}),
                  !.pLimit = IF pSub.pLimit.has THEN pSub.pLimit ELSE @]

\* flattenSubquery(pParse, p, iFrom, isAgg, subqueryIsAgg): the return
\* value and the statement p has become.  For a compound subquery the
\* parent is copied once per further term, without ORDER BY, LIMIT and
\* OFFSET, and the copies are chained to the left of p by UNION ALL.
flattenSubquery(p, iFrom, isAgg, subqueryIsAgg) ==
    IF FlattenRefused(p, iFrom, isAgg, subqueryIsAgg)
    THEN [rc |-> 0, p |-> <<p>>]
    ELSE LET pSubitem == p.pSrc[iFrom]
             sub == pSubitem.pSelect
             N == Len(sub)
             pNew == [p EXCEPT !.pOrderBy = NoExprList,
                               !.pLimit = [has |-> FALSE, n |-> 0],
                               !.pOffset = [has |-> FALSE, m |-> 0]]
             Parent(j) ==
                 IF j = N
                 THEN [p EXCEPT !.op = IF N > 1 THEN "TK_ALL" ELSE @]
                 ELSE [pNew EXCEPT !.op = IF j > 1 THEN "TK_ALL" ELSE @]
             \* the FROM items of the subquery term take the slot iFrom
             Src(j) ==
                 IF j = N
                 THEN SubSeq(p.pSrc, 1, iFrom - 1)
                      \o [sub[j].pSrc EXCEPT
                             ![1].jointype = pSubitem.jointype]
                      \o SubSeq(p.pSrc, iFrom + 1, Len(p.pSrc))
                 ELSE [sub[j].pSrc EXCEPT ![1].jointype = "JT_INNER"]
         IN [rc |-> 1,
             p |-> [j \in 1..N |->
                       FlattenTerm(Parent(j), sub[j], Src(j),
                                   pSubitem.iCursor, subqueryIsAgg)]]

\* sqlite3Select, one turn of the loop "Try to flatten subqueries in the
\* FROM clause up into the main query" for the FROM item 1.
FlattenFrom(p) ==
    LET isAgg == "SF_Aggregate" \in p.selFlags
        isAggSub == "SF_Aggregate" \in
                        p.pSrc[1].pSelect[Len(p.pSrc[1].pSelect)].selFlags
    IN The({[rc |-> F.rc,
             p |-> IF F.rc = 1 /\ isAggSub
                   THEN [F.p EXCEPT ![Len(F.p)].selFlags =
                                        @ \cup {"SF_Aggregate"}]
                   ELSE F.p] :
               F \in {flattenSubquery(p, 1, isAgg, isAggSub)}})

\* ---- what a statement returns
RECURSIVE ApplyOps(_, _)
ApplyOps(ops, v) ==
    IF ops = <<>> THEN v ELSE ApplyOps(Tail(ops), MaxFVal - v)

ExprValue(e, v) == ApplyOps(e.ops, v)

Holds(conj, v) == \A i \in 1..Len(conj) : ExprValue(conj[i].e, v) >= conj[i].k

\* One row per group, in the order of the GROUP BY key, for the groups
\* that satisfy HAVING.
GroupReps(s, t) ==
    LET ks == SortedSeq({ExprValue(t.pGroupBy.e, s[i]) : i \in 1..Len(s)})
        rep == [n \in 1..Len(ks) |->
                   s[CHOOSE i \in 1..Len(s) :
                         /\ ExprValue(t.pGroupBy.e, s[i]) = ks[n]
                         /\ \A j \in 1..(i - 1) :
                                ExprValue(t.pGroupBy.e, s[j]) # ks[n]]]
    IN SelectSeq(rep, LAMBDA v :
           /\ Cardinality({i \in 1..Len(s) :
                  ExprValue(t.pGroupBy.e, s[i])
                      = ExprValue(t.pGroupBy.e, v)}) >= t.pHaving.cnt
           /\ Holds(t.pHaving.conj, v))

\* The first row for every value of e, in order.
RECURSIVE DistinctBy(_, _)
DistinctBy(s, e) ==
    IF s = <<>> THEN <<>>
    ELSE LET r == DistinctBy(SubSeq(s, 1, Len(s) - 1), e)
         IN IF \E i \in 1..Len(r) :
                   ExprValue(e, r[i]) = ExprValue(e, s[Len(s)])
            THEN r ELSE Append(r, s[Len(s)])

\* Ascending by e, rows with equal keys in their original order.
RECURSIVE SortBy(_, _)
SortBy(s, e) ==
    IF s = <<>> THEN <<>>
    ELSE LET i == CHOOSE i \in 1..Len(s) :
                      /\ \A j \in 1..Len(s) :
                             ExprValue(e, s[i]) <= ExprValue(e, s[j])
                      /\ \A j \in 1..(i - 1) :
                             ExprValue(e, s[j]) > ExprValue(e, s[i])
         IN <<s[i]>> \o
            SortBy(SubSeq(s, 1, i - 1) \o SubSeq(s, i + 1, Len(s)), e)

LimitOffset(s, t) ==
    LET m == IF t.pOffset.has THEN Max(t.pOffset.m, 0) ELSE 0
    IN Window(s, IF t.pLimit.has THEN t.pLimit.n ELSE -1, Min(m, Len(s)))

RECURSIVE SelectRows(_)
RECURSIVE CompoundRows(_, _)

\* The rows of the FROM clause: of its base table or subquery (the other
\* items are one-row tables without columns).
SrcRows(pSrc) ==
    LET it == pSrc[CHOOSE i \in 1..Len(pSrc) : ~pSrc[i].dual]
    IN IF it.pSelect # <<>> THEN SelectRows(it.pSelect) ELSE it.rows

\* The source rows of term t behind its result rows, before ORDER BY and
\* LIMIT: WHERE, GROUP BY and HAVING, DISTINCT.
TermBody(t) ==
    LET W == SelectSeq(SrcRows(t.pSrc), LAMBDA v : Holds(t.pWhere, v))
        G == IF t.pGroupBy.has THEN GroupReps(W, t) ELSE W
    IN IF "SF_Distinct" \in t.selFlags THEN DistinctBy(G, t.pEList) ELSE G

Project(s, e) == [i \in 1..Len(s) |-> ExprValue(e, s[i])]

\* The result rows of the terms 1..j of a UNION ALL chain, concatenated.
CompoundRows(ch, j) ==
    IF j = 0 THEN <<>>
    ELSE CompoundRows(ch, j - 1) \o Project(TermBody(ch[j]), ch[j].pEList)

\* The rows a statement returns.  The ORDER BY of a compound names result
\* columns.
SelectRows(ch) ==
    LET t == ch[Len(ch)]
    IN IF Len(ch) = 1
       THEN Project(LimitOffset(IF t.pOrderBy.has
                             THEN SortBy(TermBody(t), t.pOrderBy.e)
                             ELSE TermBody(t), t),
                    t.pEList)
       ELSE LimitOffset(IF t.pOrderBy.has
                     THEN SortBy(CompoundRows(ch, Len(ch)), Column(0))
                     ELSE CompoundRows(ch, Len(ch)), t)

\* ---- the statements
\* c.bar names one more property of the statement, each of which makes
\* flattenSubquery refuse.
FlattenBars == {"NONE", "sub DISTINCT", "sub OFFSET", "sub recursive",
                "sub min/max", "LEFT JOIN", "outer compound",
                "outer recursive"}

FlattenShapes ==
    {c \in [t1 : SeqsUpTo(FVals, MaxFRows),
            oWhere : BOOLEAN, oDistinct : BOOLEAN, oAgg : BOOLEAN,
            oOrderBy : BOOLEAN, oLimit : BOOLEAN, oJoin : BOOLEAN,
            sWhere : BOOLEAN, sMinus : BOOLEAN, sAgg : BOOLEAN,
            sOrderBy : BOOLEAN, sLimit : BOOLEAN,
            left : [op : {"NONE", "TK_ALL", "TK_UNION"},
                    rows : SeqsUpTo(FVals, 1)],
            bar : FlattenBars] :
        /\ c.left.op = "NONE" => c.left.rows = <<>>
        /\ c.bar = "sub OFFSET" => c.sLimit
        /\ c.bar = "sub min/max" => c.sAgg
        /\ c.bar # "NONE" =>
              ~(c.oWhere \/ c.oDistinct \/ c.oAgg \/ c.oOrderBy
                \/ c.oLimit \/ c.oJoin)}

BaseTable(rows, iCursor) ==
    [pSelect |-> <<>>, rows |-> rows, iCursor |-> iCursor,
     jointype |-> "JT_INNER", dual |-> FALSE]

\* A plain term SELECT e FROM item.
PlainTerm(e, item) ==
    [op |-> "TK_SELECT", pEList |-> e, pSrc |-> <<item>>, pWhere |-> <<>>,
     pGroupBy |-> NoExprList, pHaving |-> [cnt |-> 0, conj |-> <<>>],
     pOrderBy |-> NoExprList, pLimit |-> [has |-> FALSE, n |-> 0],
     pOffset |-> [has |-> FALSE, m |-> 0], selFlags |-> {}]

\* The subquery: SELECT [DISTINCT] e FROM t1 [WHERE x >= 1] [GROUP BY e
\* HAVING count(*) >= 2] [ORDER BY x] [LIMIT 1 [OFFSET 1]], possibly with
\* a term SELECT x FROM t2 on its left.
SubSelect(c) ==
    LET x == Column(1)
        e == IF c.sMinus THEN Minus(x) ELSE x
        right ==
            [PlainTerm(e, BaseTable(c.t1, 1)) EXCEPT
                !.op = IF c.left.op = "NONE" THEN "TK_SELECT" ELSE c.left.op,
                !.pWhere = IF c.sWhere THEN <<[e |-> x, k |-> 1]>> ELSE <<>>,
                !.pGroupBy = [has |-> c.sAgg, e |-> e, iOrderByCol |-> 0],
                !.pHaving = [cnt |-> IF c.sAgg THEN 2 ELSE 0, conj |-> <<>>],
                !.pOrderBy = [has |-> c.sOrderBy, e |-> x,
                              iOrderByCol |-> IF e = x THEN 1 ELSE 0],
                !.pLimit = [has |-> c.sLimit, n |-> 1],
                !.pOffset = [has |-> c.bar = "sub OFFSET", m |-> 1],
                !.selFlags =
                    (IF c.sAgg THEN {"SF_Aggregate"} ELSE {})
                    \cup (IF c.bar = "sub DISTINCT" THEN {"SF_Distinct"}
                          ELSE {})
                    \cup (IF c.bar = "sub recursive" THEN {"SF_Recursive"}
                          ELSE {})
                    \cup (IF c.bar = "sub min/max" THEN {"SF_MinMaxAgg"}
                          ELSE {})]
    IN IF c.left.op = "NONE" THEN <<right>>
       ELSE <<PlainTerm(Column(2), BaseTable(c.left.rows, 2)), right>>

\* The outer term: SELECT [DISTINCT] a FROM (subquery) [, one-row table]
\* [WHERE a >= 1] [GROUP BY a HAVING count(*) >= 2] [ORDER BY a] [LIMIT 1].
OuterSelect(c) ==
    LET a == Column(0)
        item == [pSelect |-> SubSelect(c), rows |-> <<>>, iCursor |-> 0,
                 jointype |-> IF c.bar = "LEFT JOIN" THEN "JT_OUTER"
                              ELSE "JT_INNER",
                 dual |-> FALSE]
        one == [BaseTable(<<0>>, 3) EXCEPT !.dual = TRUE]
    IN [PlainTerm(a, item) EXCEPT
           !.pSrc = IF c.oJoin THEN <<item, one>> ELSE <<item>>,
           !.pWhere = IF c.oWhere THEN <<[e |-> a, k |-> 1]>> ELSE <<>>,
           !.pGroupBy = [has |-> c.oAgg, e |-> a, iOrderByCol |-> 0],
           !.pHaving = [cnt |-> IF c.oAgg THEN 2 ELSE 0, conj |-> <<>>],
           !.pOrderBy = [has |-> c.oOrderBy, e |-> a, iOrderByCol |-> 1],
           !.pLimit = [has |-> c.oLimit, n |-> 1],
           !.selFlags =
               (IF c.oAgg THEN {"SF_Aggregate"} ELSE {})
               \cup (IF c.oDistinct THEN {"SF_Distinct"} ELSE {})
               \cup (IF c.bar = "outer compound" THEN {"SF_Compound"}
                     ELSE {})
               \cup (IF c.bar = "outer recursive" THEN {"SF_Recursive"}
                     ELSE {})]

\* qry.stage is "parsed" before the flattening loop, "flattened" or
\* "refused" after it, "done" when the flattened statement has been run.
InitFlatten ==
    \E c \in FlattenShapes :
        /\ qry = [stage |-> "parsed", orig |-> <<OuterSelect(c)>>,
                  p |-> <<OuterSelect(c)>>, nErr |-> 0]
        /\ Load(Parse0)

\* A faulty flattener that detaches the subquery from the FROM item and
\* reports an error before it has made its legality checks.
Flatten_MutatesBeforeChecks ==
    /\ qry.stage = "parsed"
    /\ \E F \in {FlattenFrom(qry.p[1])} :
          qry' = [qry EXCEPT
                    !.stage = IF F.rc = 1 THEN "flattened" ELSE "refused",
                    !.p = IF F.rc = 1 THEN F.p
                          ELSE <<[qry.p[1] EXCEPT !.pSrc[1].pSelect = <<>>]>>,
                    !.nErr = IF F.rc = 1 THEN @ ELSE @ + 1]
    /\ UNCHANGED <<prog, pc, cur, regs, tabs, sorter, out, mem, halt>>
    /\ UNCHANGED <<co, queue, popped, aggSorter>>

Flatten ==
    /\ qry.stage = "parsed"
    /\ \E F \in {FlattenFrom(qry.p[1])} :
          qry' = [qry EXCEPT !.stage = IF F.rc = 1 THEN "flattened"
                                       ELSE "refused",
                             !.p = F.p]
    /\ UNCHANGED <<prog, pc, cur, regs, tabs, sorter, out, mem, halt>>
    /\ UNCHANGED <<co, queue, popped, aggSorter>>

\* The flattened statement is run.
RunFlattened ==
    /\ qry.stage = "flattened"
    /\ out' = SelectRows(qry.p)
    /\ qry' = [qry EXCEPT !.stage = "done"]
    /\ UNCHANGED <<prog, pc, cur, regs, tabs, sorter, mem, halt>>
    /\ UNCHANGED <<co, queue, popped, aggSorter>>

NextFlatten ==
    \/ Flatten
    \/ RunFlattened

SpecFlatten == InitFlatten /\ [][NextFlatten]_vars

\* C9: whenever flattenSubquery accepts the subquery, the flattened
\* statement returns the same multiset of rows as the statement it
\* replaces.
C9_FlattenPreservesRows ==
    qry.stage = "done" => SameBag(out, SelectRows(qry.orig))

\* ------------------------------------------------- error propagation
\* The control flow of sqlite3Select, multiSelect, multiSelectOrderBy,
\* multiSelectValues and generateWithRecursiveQuery with respect to
\* Parse.nErr, sqlite3.mallocFailed and the result code.  A term is a
\* record [op, selFlags, pOrderBy, pLimit, iLimit, fault]: pOrderBy tells
\* whether the term has an ORDER BY, pLimit is "NONE", "INT" or "COLLATE"
\* (a LIMIT expression with EP_Collate) and stands for the LIMIT together
\* with its OFFSET, which the code always moves as a pair, and fault names the step of the
\* term that records an error: "prep" (sqlite3SelectPrep: name
\* resolution), "where" (sqlite3WhereBegin fails) or "none".  The program
\* is the sequence of the opcodes emitted.

\* A compound of the error model has at most MaxErrTerms terms.
MaxErrTerms == 3

ParseCtx(nErr, mallocFailed) ==
    [nMem |-> 0, nTab |-> 0, nLabel |-> 0, prog |-> <<>>,
     nErr |-> nErr, mallocFailed |-> mallocFailed]

sqlite3ErrorMsg(P) == [P EXCEPT !.nErr = @ + 1]

Emit(P, opcodes) == [P EXCEPT !.prog = @ \o opcodes]

\* computeLimitRegisters: a LIMIT with a COLLATE clause is an error and
\* leaves p->iLimit zero.
computeLimitRegisters_rc(P, p) ==
    IF p.iLimit # 0 \/ p.pLimit = "NONE" THEN [P |-> P, p |-> p]
    ELSE IF p.pLimit = "COLLATE" THEN [P |-> sqlite3ErrorMsg(P), p |-> p]
    ELSE [P |-> Emit([P EXCEPT !.nMem = @ + 1], <<"OP_Integer">>),
          p |-> [p EXCEPT !.iLimit = P.nMem + 1]]

\* sqlite3Select from the allocation of iEnd to select_end, for a term
\* without pPrior.
SelectBody_rc(P, p) ==
    The({ IF p.fault = "where"
          THEN [P |-> sqlite3ErrorMsg(L.P), p |-> L.p, rc |-> 1]
          ELSE [P |-> Emit(L.P, <<"OP_Rewind", "OP_ResultRow", "OP_Next">>),
                p |-> L.p,
                rc |-> IF L.P.nErr > 0 THEN 1 ELSE 0] :
          L \in {computeLimitRegisters_rc(sqlite3VdbeMakeLabel(P), p)} })

\* A faulty entry test that never fires.
EntryFailed_Never(P) == FALSE

\* The test at the entry of sqlite3Select.
EntryFailed(P) == P.mallocFailed \/ P.nErr > 0

\* sqlite3SelectPrep walks p and everything reachable through pPrior; a
\* Select that has been through it carries SF_HasTypeInfo.
PrepScope(ch, k, linked) ==
    {j \in (IF linked THEN 1..k ELSE {k}) :
        "SF_HasTypeInfo" \notin ch[j].selFlags}

sqlite3SelectPrep(P, ch, k, linked) ==
    IF \E j \in PrepScope(ch, k, linked) : ch[j].fault = "prep"
    THEN [P |-> sqlite3ErrorMsg(P), ch |-> ch]
    ELSE [P |-> P,
          ch |-> [j \in 1..Len(ch) |->
                     IF j \in PrepScope(ch, k, linked)
                     THEN [ch[j] EXCEPT !.selFlags = @ \cup {"SF_HasTypeInfo"}]
                     ELSE ch[j]]]

\* A faulty test that lets a LIMIT on the prior term pass.
PriorCarries_OrderByOnly(ch, k) == ch[k - 1].pOrderBy

\* The test at the entry of multiSelect: the term to the left carries an
\* ORDER BY or a LIMIT.
PriorCarries(ch, k) == ch[k - 1].pOrderBy \/ ch[k - 1].pLimit # "NONE"

RECURSIVE sqlite3Select_rc(_, _, _, _, _)
RECURSIVE multiSelect_rc(_, _, _, _)
RECURSIVE multiSelectValues_rc(_, _, _, _, _)

\* sqlite3Select(pParse, &ch[k], &dest); linked tells whether ch[k].pPrior
\* is attached.
sqlite3Select_rc(P, ch, k, linked, dest) ==
    IF EntryFailed(P) THEN [P |-> P, ch |-> ch, rc |-> 1]
    ELSE The({
           IF N.P.nErr > 0 THEN [P |-> N.P, ch |-> N.ch, rc |-> 1]
           ELSE IF linked /\ k > 1
           THEN The({ [P |-> sqlite3VdbeMakeLabel(M.P), ch |-> M.ch,
                       rc |-> M.rc] :
                      M \in {multiSelect_rc(N.P, N.ch, k, dest)} })
           ELSE The({ [P |-> S.P, ch |-> [N.ch EXCEPT ![k] = S.p],
                       rc |-> S.rc] :
                      S \in {SelectBody_rc(N.P, N.ch[k])} }) :
           N \in {sqlite3SelectPrep(P,
                      IF IgnorableOrderby(dest)
                      THEN [ch EXCEPT ![k].pOrderBy = FALSE] ELSE ch,
                      k, linked)} })

\* multiSelectValues: the terms first..k of a VALUES clause are coded left
\* to right, each one detached, until one fails.
multiSelectValues_rc(P, ch, first, k, dest) ==
    The({ IF S.rc # 0 \/ first = k THEN S
          ELSE multiSelectValues_rc(S.P, S.ch, first + 1, k, dest) :
          S \in {sqlite3Select_rc(P, ch, first, FALSE, dest)} })

\* generateWithRecursiveQuery returns no result code.
generateWithRecursiveQuery_rc(P0, ch, k, dest) ==
    The({
      LET isUnion == ch[k].op = "TK_UNION"
          destQueue == [eDest |-> IF isUnion THEN "SRT_DistFifo"
                                  ELSE "SRT_Fifo",
                        iSDParm |-> L.P.nTab, pOrderBy |-> "NONE"]
          Pb == Emit([L.P EXCEPT !.nTab = IF isUnion THEN @ + 2 ELSE @ + 1,
                                 !.nMem = @ + 1],
                     <<"OP_OpenPseudo", "OP_OpenTEphemeral">>
                     \o (IF isUnion THEN <<"OP_OpenTEphemeral">> ELSE <<>>))
          ch1 == [ch EXCEPT ![k] = [L.p EXCEPT !.pLimit = "NONE",
                                               !.iLimit = 0,
                                               !.pOrderBy = FALSE]]
          Restore(c) == [c EXCEPT ![k].pOrderBy = ch[k].pOrderBy,
                                  ![k].pLimit = ch[k].pLimit]
      IN The({
           IF S.rc # 0 THEN [P |-> S.P, ch |-> Restore(S.ch)]
           ELSE LET Pd == Emit(sqlite3VdbeMakeLabel(S.P),
                               <<"OP_Rewind", "OP_NullRow", "OP_RowData",
                                 "OP_Delete", "OP_ResultRow">>)
                IN IF "SF_Aggregate" \in S.ch[k].selFlags
                   THEN [P |-> Emit(sqlite3ErrorMsg(Pd), <<"OP_Goto">>),
                         ch |-> Restore(S.ch)]
                   ELSE The({ [P |-> Emit(R.P, <<"OP_Goto">>),
                               ch |-> Restore(R.ch)] :
                              R \in {sqlite3Select_rc(Pd, S.ch, k, FALSE,
                                                      destQueue)} }) :
           S \in {sqlite3Select_rc(Pb, ch1, k - 1, TRUE, destQueue)} }) :
      L \in {computeLimitRegisters_rc(sqlite3VdbeMakeLabel(P0), ch[k])} })

\* multiSelectOrderBy: both sides are coded as coroutines; the result code
\* is nErr != 0.
multiSelectOrderBy_rc(P0, ch, k, dest) ==
    The({
      LET ch1 == [ch EXCEPT ![k - 1].pOrderBy = TRUE,
                            ![k] = [L.p EXCEPT !.pLimit = "NONE"]]
          Pa == Emit([L.P EXCEPT !.nMem = @ + 4], <<"OP_InitCoroutine">>)
      IN The({
           The({ [P |-> Emit(B.P, <<"OP_EndCoroutine", "OP_Gosub",
                                    "OP_Compare", "OP_Jump">>),
                  ch |-> [B.ch EXCEPT ![k].iLimit = L.p.iLimit],
                  rc |-> IF B.P.nErr # 0 THEN 1 ELSE 0] :
                 B \in {sqlite3Select_rc(
                            Emit(A.P, <<"OP_EndCoroutine",
                                        "OP_InitCoroutine">>),
                            [A.ch EXCEPT ![k].iLimit = 0], k, FALSE,
                            [eDest |-> "SRT_Coroutine", iSDParm |-> 0,
                             pOrderBy |-> "NONE"])} }) :
           A \in {sqlite3Select_rc(Pa, ch1, k - 1, TRUE,
                      [eDest |-> "SRT_Coroutine", iSDParm |-> 0,
                       pOrderBy |-> "NONE"])} }) :
      L \in {computeLimitRegisters_rc(
                 sqlite3VdbeMakeLabel(sqlite3VdbeMakeLabel(P0)), ch[k])} })

\* The tail shared by UNION, EXCEPT and INTERSECT, entered with the LIMIT
\* of the compound restored: its registers are computed, then the loop
\* over the temporary table is emitted.  rc is the result of the right
\* term.
CompoundTail_rc(R, k) ==
    The({ [P |-> Emit(C.P, <<"OP_Rewind", "OP_ResultRow", "OP_Next">>),
           ch |-> [R.ch EXCEPT ![k] = C.p], rc |-> R.rc] :
          C \in {computeLimitRegisters_rc(
                     sqlite3VdbeMakeLabel(sqlite3VdbeMakeLabel(R.P)),
                     R.ch[k])} })

multiSelect_rc(P, ch, k, dest) ==
    CASE PriorCarries(ch, k) ->
        [P |-> sqlite3ErrorMsg(P), ch |-> ch, rc |-> 1]
      [] "SF_MultiValue" \in ch[k].selFlags ->
        multiSelectValues_rc(P, ch, 1, k, dest)
      [] "SF_Recursive" \in ch[k].selFlags ->
        The({ [P |-> G.P, ch |-> G.ch, rc |-> 0] :
              G \in {generateWithRecursiveQuery_rc(P, ch, k, dest)} })
      [] ch[k].pOrderBy ->
        multiSelectOrderBy_rc(P, ch, k, dest)
      [] ch[k].op = "TK_ALL" ->
        The({ IF L.rc # 0
              THEN [L EXCEPT !.ch[k].pLimit = "NONE"]
              ELSE sqlite3Select_rc(
                       IF L.ch[k - 1].iLimit # 0
                       THEN Emit(L.P, <<"OP_IfNot">>) ELSE L.P,
                       [L.ch EXCEPT ![k].pLimit = "NONE",
                                    ![k].iLimit = L.ch[k - 1].iLimit],
                       k, FALSE, dest) :
              L \in {sqlite3Select_rc(P,
                         [ch EXCEPT ![k - 1].iLimit = ch[k].iLimit,
                                    ![k - 1].pLimit = ch[k].pLimit],
                         k - 1, TRUE, dest)} })
      [] ch[k].op \in {"TK_UNION", "TK_EXCEPT"} ->
        The({ IF L.rc # 0 THEN L
              ELSE The({ IF dest.eDest = "SRT_Union"
                         THEN [R EXCEPT !.ch[k].pLimit = ch[k].pLimit,
                                        !.ch[k].pOrderBy = FALSE,
                                        !.ch[k].iLimit = 0]
                         ELSE CompoundTail_rc(
                                  [R EXCEPT !.ch[k].pLimit = ch[k].pLimit,
                                            !.ch[k].pOrderBy = FALSE,
                                            !.ch[k].iLimit = 0], k) :
                         R \in {sqlite3Select_rc(L.P,
                                    [L.ch EXCEPT ![k].pLimit = "NONE"],
                                    k, FALSE,
                                    [eDest |-> IF ch[k].op = "TK_EXCEPT"
                                               THEN "SRT_Except"
                                               ELSE "SRT_Union",
                                     iSDParm |-> 0,
                                     pOrderBy |-> "NONE"])} }) :
              L \in {sqlite3Select_rc(
                         IF dest.eDest = "SRT_Union" THEN P
                         ELSE Emit([P EXCEPT !.nTab = @ + 1],
                                   <<"OP_OpenTEphemeral">>),
                         ch, k - 1, TRUE,
                         [eDest |-> "SRT_Union", iSDParm |-> 0,
                          pOrderBy |-> "NONE"])} })
      [] OTHER ->
        The({ IF L.rc # 0 THEN L
              ELSE The({ CompoundTail_rc(
                             [R EXCEPT !.ch[k].pLimit = ch[k].pLimit], k) :
                         R \in {sqlite3Select_rc(
                                    Emit(L.P, <<"OP_OpenTEphemeral">>),
                                    [L.ch EXCEPT ![k].pLimit = "NONE"],
                                    k, FALSE,
                                    [eDest |-> "SRT_Union", iSDParm |-> 0,
                                     pOrderBy |-> "NONE"])} }) :
              L \in {sqlite3Select_rc(
                         Emit([P EXCEPT !.nTab = @ + 2],
                              <<"OP_OpenTEphemeral">>),
                         ch, k - 1, TRUE,
                         [eDest |-> "SRT_Union", iSDParm |-> 0,
                          pOrderBy |-> "NONE"])} })

\* The statements of the error model: n terms joined by ops, with ORDER BY
\* and LIMIT per term, at most one faulty term (site, 0: none), the kind
\* of compound, the Parse state at entry and the destination.
ErrShapes ==
    {c \in [n : 1..MaxErrTerms,
            ops : [2..MaxErrTerms -> CompoundOps],
            ob : [1..MaxErrTerms -> BOOLEAN],
            lim : [1..MaxErrTerms -> {"NONE", "INT", "COLLATE"}],
            site : 0..MaxErrTerms, fault : {"prep", "where"},
            kind : {"plain", "recursive", "recursive aggregate", "values"},
            nErr : 0..1, mallocFailed : BOOLEAN,
            eDest : {"SRT_Output", "SRT_Union"}] :
        /\ \A j \in 1..MaxErrTerms :
              (j > c.n \/ (c.n = MaxErrTerms /\ j = 2))
                  => (~c.ob[j] /\ c.lim[j] = "NONE")
        /\ \A j \in 2..MaxErrTerms : j > c.n => c.ops[j] = "TK_ALL"
        /\ c.site <= c.n
        /\ c.site = 0 => c.fault = "prep"
        /\ c.kind # "plain" => c.n >= 2
        /\ c.kind \in {"recursive", "recursive aggregate"}
               => c.ops[c.n] \in {"TK_ALL", "TK_UNION"} /\ ~c.ob[c.n]
        /\ c.kind = "values"
               => \A j \in 1..c.n :
                      /\ ~c.ob[j] /\ c.lim[j] = "NONE"
                      /\ j > 1 => c.ops[j] = "TK_ALL"}

ErrChain(c) ==
    [j \in 1..c.n |->
        [op |-> IF j = 1 THEN "TK_SELECT" ELSE c.ops[j],
         selFlags |->
             (IF c.kind = "values" THEN {"SF_Values"} ELSE {})
             \cup (IF c.kind = "values" /\ j = c.n
                   THEN {"SF_MultiValue"} ELSE {})
             \cup (IF c.kind \in {"recursive", "recursive aggregate"}
                      /\ j = c.n
                   THEN {"SF_Recursive"} ELSE {})
             \cup (IF c.kind = "recursive aggregate" /\ j = c.n
                   THEN {"SF_Aggregate"} ELSE {}),
         pOrderBy |-> c.ob[j], pLimit |-> c.lim[j], iLimit |-> 0,
         fault |-> IF j = c.site THEN c.fault ELSE "none"]]

\* qry.stage is "parsed" before the call of sqlite3Select and "coded"
\* after it; qry.P is the Parse, qry.p the chain and qry.rc the result.
InitErrors ==
    \E c \in ErrShapes :
        /\ qry = [stage |-> "parsed", c |-> c,
                  P |-> ParseCtx(c.nErr, c.mallocFailed),
                  p |-> ErrChain(c), rc |-> 0]
        /\ Load(Parse0)

CodeSelect ==
    /\ qry.stage = "parsed"
    /\ \E S \in {sqlite3Select_rc(qry.P, qry.p, qry.c.n, TRUE,
                       [eDest |-> qry.c.eDest, iSDParm |-> 0,
                        pOrderBy |-> "NONE"])} :
          qry' = [qry EXCEPT !.stage = "coded", !.P = S.P, !.p = S.ch,
                             !.rc = S.rc]
    /\ UNCHANGED <<prog, pc, cur, regs, tabs, sorter, out, mem, halt>>
    /\ UNCHANGED <<co, queue, popped, aggSorter>>

NextErrors ==
    \/ CodeSelect

SpecErrors == InitErrors /\ [][NextErrors]_vars

\* C11: a call of sqlite3Select during which an error was recorded returns
\* a non-zero result, for simple statements and for every kind of
\* compound.
C11_ErrorMeansFailure ==
    (qry.stage = "coded" /\ qry.P.nErr > qry.c.nErr) => qry.rc # 0

\* C12: a call of sqlite3Select entered with an error or an allocation
\* failure already recorded returns failure, emits no instruction, opens
\* no cursor, allocates no register and leaves the statement as it was.
C12_FailedEntryIsNoOp ==
    (qry.stage = "coded" /\ (qry.c.nErr > 0 \/ qry.c.mallocFailed))
        => /\ qry.rc = 1
           /\ qry.P = ParseCtx(qry.c.nErr, qry.c.mallocFailed)
           /\ qry.p = ErrChain(qry.c)

\* C12 witness: a UNION with ORDER BY and LIMIT, which a call entered
\* without an error would have coded and modified, was handed to a call
\* entered with an error recorded.
C12_Witness ==
    /\ qry.stage = "coded"
    /\ qry.c.nErr > 0 /\ ~qry.c.mallocFailed
    /\ qry.c.n = 2 /\ qry.c.ops[2] = "TK_UNION"
    /\ qry.c.eDest = "SRT_Union"
    /\ qry.p[2].pOrderBy /\ qry.p[2].pLimit = "INT"
    /\ qry.rc = 1 /\ qry.P.prog = <<>>

FuncFlags(zName, nArg) ==
    IF zName = "count" /\ nArg = 0 THEN {"SQLITE_FUNC_COUNT"} ELSE {}

\* sqlite3ExprAnalyzeAggList(&sNC, pEList): one entry of sAggInfo.aFunc for
\* every aggregate call of the list, in list order, each with a register
\* and, when it is DISTINCT, with the cursor of an ephemeral index
\* (iDistinct, else -1).
RECURSIVE sqlite3ExprAnalyzeAggList(_, _, _)
sqlite3ExprAnalyzeAggList(pEList, mnReg, nTab) ==
    IF pEList = <<>> THEN <<>>
    ELSE LET distinct == "EP_Distinct" \in Head(pEList).flags
         IN <<[zName |-> Head(pEList).zName, nArg |-> Head(pEList).nArg,
               funcFlags |-> FuncFlags(Head(pEList).zName,
                                       Head(pEList).nArg),
               iMem |-> mnReg,
               iDistinct |-> IF distinct THEN nTab ELSE -1]>>
            \o sqlite3ExprAnalyzeAggList(Tail(pEList), mnReg + 1,
                    IF distinct THEN nTab + 1 ELSE nTab)

\* A faulty is_simple_count that does not look at the WHERE.
is_simple_count_IgnoresWhere(select, aFunc) ==
    ~(\/ Len(select.pEList) # 1
      \/ Len(select.pSrc) # 1
      \/ select.pSrc[1].pSelect
      \/ select.pEList[1].op # "TK_AGG_FUNCTION"
      \/ aFunc = <<>>
      \/ "SQLITE_FUNC_COUNT" \notin aFunc[1].funcFlags
      \/ "EP_Distinct" \in select.pEList[1].flags)

\* is_simple_count: TRUE where the C function returns the space.
is_simple_count(select, aFunc) ==
    IF \/ select.pWhere
       \/ Len(select.pEList) # 1
       \/ Len(select.pSrc) # 1
       \/ select.pSrc[1].pSelect
    THEN FALSE
    ELSE IF select.pEList[1].op # "TK_AGG_FUNCTION" THEN FALSE
    ELSE IF aFunc = <<>> THEN FALSE
    ELSE IF "SQLITE_FUNC_COUNT" \notin aFunc[1].funcFlags THEN FALSE
    ELSE IF "EP_Distinct" \in select.pEList[1].flags THEN FALSE
    ELSE TRUE

\* The rows the WHERE loop of the statement delivers: the values of x of
\* the first FROM term, once for every row of the second term if there is
\* one, without those the WHERE rejects.
RECURSIVE Repeat(_, _)
Repeat(s, n) == IF n = 0 THEN <<>> ELSE s \o Repeat(s, n - 1)

WhereRows(select) ==
    LET joined == IF Len(select.pSrc) = 1 THEN select.pSrc[1].rows
                  ELSE Repeat(select.pSrc[1].rows, Len(select.pSrc[2].rows))
    IN IF select.pWhere THEN SelectSeq(joined, LAMBDA x : x >= 1)
       ELSE joined

\* sqlite3Select for an aggregate without GROUP BY, from the analysis of
\* the aggregates to the end: either OP_Count on the space, or the reset
\* of the accumulators, the WHERE loop with updateAccumulator and
\* finalizeAggFunctions; then selectInnerLoop for the one row.
SelectAggregate(P0, select, dest) ==
    LET Pi == sqlite3VdbeMakeLabel(P0)
        iEnd == Pi.nLabel
        L == computeLimitRegisters(Pi, select, iEnd)
        Pa == sqlite3VdbeMakeLabel(L.P)
        addrEnd == Pa.nLabel
        aFunc == sqlite3ExprAnalyzeAggList(select.pEList, Pa.nMem + 1,
                                           Pa.nTab)
        Pb == [Pa EXCEPT !.nMem = @ + Len(aFunc),
                         !.nTab = @ + Cardinality({k \in 1..Len(aFunc) :
                                       aFunc[k].iDistinct >= 0})]
        I == [op |-> "AggResult", pEList |-> select.pEList,
              aFunc |-> aFunc, iLimit |-> L.p.iLimit,
              iOffset |-> L.p.iOffset,
              eTnct |-> "NOOP", tabTnct |-> -1, sort |-> FALSE,
              desc |-> FALSE, ob |-> "NONE", eDest |-> dest.eDest,
              iParm |-> dest.iSDParm, pSO |-> dest.pOrderBy]
        body == IF is_simple_count(select, aFunc)
                THEN <<[op |-> "OpenCursor", cursor |-> Pb.nTab],
                       [op |-> "Count", cursor |-> Pb.nTab,
                        rows |-> select.pSrc[1].rows,
                        reg |-> aFunc[1].iMem],
                       [op |-> "Close", cursor |-> Pb.nTab]>>
                ELSE <<[op |-> "AggReset", aFunc |-> aFunc],
                       [op |-> "AggLoop", rows |-> WhereRows(select),
                        aFunc |-> aFunc],
                       [op |-> "AggFinal", aFunc |-> aFunc]>>
        \* sqlite3ExprIfFalse(pParse, pHaving, addrEnd, SQLITE_JUMPIFNULL)
        having == IF select.pHaving = 0 THEN <<>>
                  ELSE <<[op |-> "IfFalse", pEList |-> select.pEList,
                          aFunc |-> aFunc, h |-> select.pHaving,
                          to |-> addrEnd]>>
    IN EmitAll(IF is_simple_count(select, aFunc)
               THEN [Pb EXCEPT !.nTab = @ + 1] ELSE Pb,
               body \o having
                    \o <<I, [op |-> "Label", id |-> addrEnd],
                         [op |-> "Label", id |-> iEnd]>>)

\* OP_AggStep0 for aggregate f on the row with value x.  The accumulator of
\* sum() is -1 (NULL) until the first row; tabs holds the values seen by a
\* DISTINCT aggregate.
AggStep(st, f, x) ==
    IF f.iDistinct >= 0 /\ x \in st.tabs[f.iDistinct] THEN st
    ELSE LET s1 == IF f.iDistinct >= 0
                   THEN [st EXCEPT !.tabs[f.iDistinct] = @ \cup {x}]
                   ELSE st
         IN [s1 EXCEPT !.regs[f.iMem] =
                IF f.zName = "count" THEN (IF @ < 0 THEN 1 ELSE @ + 1)
                ELSE (IF @ < 0 THEN x ELSE @ + x)]

\* updateAccumulator: every aggregate of aFunc takes its step.
RECURSIVE updateAccumulator_all(_, _, _)
updateAccumulator_all(st, aFunc, x) ==
    IF aFunc = <<>> THEN st
    ELSE updateAccumulator_all(AggStep(st, Head(aFunc), x), Tail(aFunc), x)

\* A faulty finalization that leaves count() of no row NULL.
finalizeAggFunctions_KeepsNull(rg, aFunc) == rg

\* finalizeAggFunctions: OP_AggFinal; count() of no row is 0.
RECURSIVE finalizeAggFunctions(_, _)
finalizeAggFunctions(rg, aFunc) ==
    IF aFunc = <<>> THEN rg
    ELSE finalizeAggFunctions(
             [rg EXCEPT ![Head(aFunc).iMem] =
                 IF Head(aFunc).zName = "count" /\ @ < 0 THEN 0 ELSE @],
             Tail(aFunc))

\* The value of result expression j in the interpreter state.
ResultValue(rg, i, j) ==
    IF i.pEList[j].op = "TK_PLUS" /\ rg[i.aFunc[j].iMem] >= 0
    THEN rg[i.aFunc[j].iMem] + 1
    ELSE rg[i.aFunc[j].iMem]

\* The result row: the value itself when there is one result column.
ResultRow(rg, i) ==
    IF Len(i.pEList) = 1 THEN ResultValue(rg, i, 1)
    ELSE [j \in 1..Len(i.pEList) |-> ResultValue(rg, i, j)]

\* Straight-line instructions of the aggregate code.
AggOp ==
    /\ Running
    /\ prog[pc].op \in {"OpenCursor", "Count", "Close", "AggReset",
                        "AggFinal"}
    /\ LET i == prog[pc]
       IN CASE i.op = "Count" ->
                   regs' = [regs EXCEPT ![i.reg] = Len(i.rows)]
            [] i.op = "AggReset" ->
                   regs' = [r \in DOMAIN regs |->
                               IF \E k \in 1..Len(i.aFunc) :
                                      i.aFunc[k].iMem = r
                               THEN -1 ELSE regs[r]]
            [] i.op = "AggFinal" ->
                   regs' = finalizeAggFunctions(regs, i.aFunc)
            [] OTHER -> UNCHANGED regs
    /\ pc' = SkipLabels(prog, pc + 1)
    /\ UNCHANGED <<qry, prog, cur, tabs, sorter, out, mem, halt>>
    /\ UNCHANGED <<co, queue, popped, aggSorter>>

\* One iteration of the WHERE loop: updateAccumulator.
AggLoopRow ==
    /\ Running
    /\ prog[pc].op = "AggLoop"
    /\ cur <= Len(prog[pc].rows)
    /\ \E st \in {updateAccumulator_all(St, prog[pc].aFunc,
                                        prog[pc].rows[cur])} :
          regs' = st.regs /\ tabs' = st.tabs
    /\ cur' = cur + 1
    /\ UNCHANGED <<qry, prog, pc, sorter, out, mem, halt>>
    /\ UNCHANGED <<co, queue, popped, aggSorter>>

AggLoopEnd ==
    /\ Running
    /\ prog[pc].op = "AggLoop"
    /\ cur > Len(prog[pc].rows)
    /\ pc' = SkipLabels(prog, pc + 1)
    /\ cur' = 1
    /\ UNCHANGED <<qry, prog, regs, tabs, sorter, out, mem, halt>>
    /\ UNCHANGED <<co, queue, popped, aggSorter>>

\* selectInnerLoop for the one row of the aggregate.
AggResult ==
    /\ Running
    /\ prog[pc].op = "AggResult"
    /\ \E st \in {selectInnerLoop(St, prog[pc], ResultRow(regs, prog[pc]))} :
          /\ regs' = st.regs /\ tabs' = st.tabs /\ sorter' = st.sorter
          /\ out' = st.out /\ mem' = st.mem /\ queue' = st.queue
    /\ pc' = SkipLabels(prog, pc + 1)
    /\ UNCHANGED <<qry, prog, cur, halt, co, popped, aggSorter>>

AggCall(zName, nArg, flags) ==
    [op |-> "TK_AGG_FUNCTION", zName |-> zName, nArg |-> nArg,
     flags |-> flags]

\* count(*), count(x), count(DISTINCT x), sum(x) and count(*) + 1.
AggExprs ==
    {AggCall("count", 0, {}), AggCall("count", 1, {}),
     AggCall("count", 1, {"EP_Distinct"}), AggCall("sum", 1, {}),
     [AggCall("count", 0, {}) EXCEPT !.op = "TK_PLUS"]}

AggShapes ==
    [t1 : SeqsUpTo(0..MaxVal, MaxRows), pWhere : BOOLEAN,
     pEList : {e \in SeqsUpTo(AggExprs, 2) : e # <<>>},
     from : {"t1", "subquery", "t1, t1"}]

AggSelect(c) ==
    [pWhere |-> c.pWhere, pEList |-> c.pEList, pHaving |-> 0,
     pLimit |-> NoLimit, pOffset |-> NoOffset, iLimit |-> 0, iOffset |-> 0,
     selFlags |-> {"SF_Aggregate"},
     pSrc |-> IF c.from = "t1, t1"
              THEN <<[pSelect |-> FALSE, rows |-> c.t1],
                     [pSelect |-> FALSE, rows |-> c.t1]>>
              ELSE <<[pSelect |-> c.from = "subquery", rows |-> c.t1]>>]

InitAggregate ==
    \E c \in AggShapes :
        /\ qry = [p |-> AggSelect(c), dest |-> DestOutput]
        /\ Load(SelectAggregate(Parse0, AggSelect(c), DestOutput))

NextAggregate ==
    \/ AggOp
    \/ AggLoopRow
    \/ AggLoopEnd
    \/ AggResult

SpecAggregate == InitAggregate /\ [][NextAggregate]_vars

\* The program has an instruction with opcode o.
Emitted(o) == \E a \in 1..Len(prog) : prog[a].op = o

AggHavingShapes ==
    {c \in [t1 : SeqsUpTo(0..MaxVal, MaxRows), pWhere : BOOLEAN,
            e : AggExprs, h : 0..MaxHaving, lim : Limits, off : Offsets] :
        c.off.has => c.lim.has}

AggHavingSelect(c) ==
    [AggSelect([t1 |-> c.t1, pWhere |-> c.pWhere, pEList |-> <<c.e>>,
                from |-> "t1"])
        EXCEPT !.pHaving = c.h, !.pLimit = c.lim, !.pOffset = c.off]

InitAggHaving ==
    \E c \in AggHavingShapes :
        /\ qry = [p |-> AggHavingSelect(c), dest |-> DestOutput]
        /\ Load(SelectAggregate(Parse0, AggHavingSelect(c), DestOutput))

\* The jump of sqlite3ExprIfFalse(pHaving, addrEnd, SQLITE_JUMPIFNULL).
AggHaving ==
    /\ Running
    /\ prog[pc].op = "IfFalse"
    /\ LET i == prog[pc]
           v == ResultValue(regs, i, 1)
       IN pc' = IF v < 0 \/ v < i.h THEN LabelAddr(prog, i.to)
                ELSE SkipLabels(prog, pc + 1)
    /\ UNCHANGED <<qry, prog, cur, regs, tabs, sorter, out, mem, halt>>
    /\ UNCHANGED <<co, queue, popped, aggSorter>>

NextAggHaving ==
    \/ StepOp
    \/ AggOp
    \/ AggLoopRow
    \/ AggLoopEnd
    \/ AggHaving
    \/ AggResult

SpecAggHaving == InitAggHaving /\ [][NextAggHaving]_vars

RECURSIVE SumOf(_)
SumOf(s) == IF s = <<>> THEN 0 ELSE Head(s) + SumOf(Tail(s))

\* The value of the aggregate expression e over the rows; -1 is NULL.
AggValue(e, rows) ==
    LET f == IF e.zName = "sum"
             THEN (IF rows = <<>> THEN -1 ELSE SumOf(rows))
             ELSE IF "EP_Distinct" \in e.flags
                  THEN Cardinality(Range(rows))
                  ELSE Len(rows)
    IN IF e.op = "TK_PLUS" /\ f >= 0 THEN f + 1 ELSE f

\* HAVING of the statement is absent or true (not false, not NULL).
HavingTrue(p) ==
    \/ p.pHaving = 0
    \/ AggValue(p.pEList[1], WhereRows(p)) >= p.pHaving

\* The addresses of OP_AggFinal in the program.
AggFinalAddrs == {a \in 1..Len(prog) : prog[a].op = "AggFinal"}

\* The step executes finalizeAggFunctions / jumps over it without
\* executing it / arrives at it.
SkipsFinalize == \E a \in AggFinalAddrs : pc <= a /\ pc' > a /\ pc # a
ArrivesAtFinalize == pc' \in AggFinalAddrs /\ pc' # pc
ScanEnded == prog[pc].op = "AggLoop" /\ cur > Len(prog[pc].rows)

\* The LIMIT of the statement evaluates to 0.
LimitIsZero(p) == p.pLimit.has /\ p.pLimit.n = 0

\* The rows a finished aggregate query has routed.
RoutesOneOrNone ==
    LET p == qry.p
    IN Finished =>
        /\ (HavingTrue(p) /\ ~LimitIsZero(p)
                /\ (~p.pOffset.has \/ p.pOffset.m = 0))
              => out = <<AggValue(p.pEList[1], WhereRows(p))>>
        /\ ~HavingTrue(p) => out = <<>>

NoToken == <<>>

zKeyText ==
    <<"n", "a", "t", "u", "r", "a", "l", "e", "f", "t", "o", "u", "t", "e",
      "r", "i", "g", "h", "t", "f", "u", "l", "l", "i", "n", "n", "e", "r",
      "c", "r", "o", "s", "s">>

\* aKeyword[]: the beginning of the keyword in zKeyText (counted from 0),
\* its length and its join type mask.
aKeyword ==
    <<[i |-> 0, nChar |-> 7, code |-> {"JT_NATURAL"}],
      [i |-> 6, nChar |-> 4, code |-> {"JT_LEFT", "JT_OUTER"}],
      [i |-> 10, nChar |-> 5, code |-> {"JT_OUTER"}],
      [i |-> 14, nChar |-> 5, code |-> {"JT_RIGHT", "JT_OUTER"}],
      [i |-> 19, nChar |-> 4, code |-> {"JT_LEFT", "JT_RIGHT", "JT_OUTER"}],
      [i |-> 23, nChar |-> 5, code |-> {"JT_INNER"}],
      [i |-> 28, nChar |-> 5, code |-> {"JT_INNER", "JT_CROSS"}]>>

\* The lower-case form of a character (of those that occur in the tokens).
ToLower(c) ==
    CASE c = "L" -> "l" [] c = "E" -> "e" [] c = "F" -> "f" [] c = "T" -> "t"
      [] c = "I" -> "i" [] c = "N" -> "n" [] c = "R" -> "r"
      [] OTHER -> c

\* sqlite3StrNICmp(z, &zKeyText[i], n) == 0
sqlite3StrNICmp0(z, i, n) ==
    \A k \in 1..n : ToLower(z[k]) = ToLower(zKeyText[i + k])

\* The index j at which the inner loop over aKeyword stops for token p:
\* that of the first matching keyword, else ArraySize(aKeyword) + 1.
KeywordIndex(p) ==
    LET hit == {j \in 1..Len(aKeyword) :
                   /\ Len(p) = aKeyword[j].nChar
                   /\ sqlite3StrNICmp0(p, aKeyword[j].i, Len(p))}
    IN IF hit = {} THEN Len(aKeyword) + 1
       ELSE CHOOSE j \in hit : \A h \in hit : j <= h

\* The loop over apAll, from token i on, with jointype so far.
RECURSIVE ScanTokens(_, _, _)
ScanTokens(apAll, i, jointype) ==
    IF i > 3 \/ apAll[i] = NoToken THEN jointype
    ELSE IF KeywordIndex(apAll[i]) > Len(aKeyword)
         THEN jointype \cup {"JT_ERROR"}
         ELSE ScanTokens(apAll, i + 1,
                         jointype \cup aKeyword[KeywordIndex(apAll[i])].code)

\* A faulty test that lets RIGHT and FULL joins pass.
Unsupported_OuterAloneOnly(jointype) ==
    "JT_OUTER" \in jointype
    /\ jointype \cap {"JT_LEFT", "JT_RIGHT"} = {}

\* (jointype & JT_OUTER) != 0 && (jointype & (JT_LEFT | JT_RIGHT)) != JT_LEFT
Unsupported(jointype) ==
    "JT_OUTER" \in jointype
    /\ jointype \cap {"JT_LEFT", "JT_RIGHT"} # {"JT_LEFT"}

\* sqlite3JoinType(pParse, pA, pB, pC): the join type returned and the
\* number of errors recorded.
sqlite3JoinType(pA, pB, pC) ==
    The({ IF {"JT_INNER", "JT_OUTER"} \subseteq jointype
             \/ "JT_ERROR" \in jointype
          THEN [jointype |-> {"JT_INNER"}, nErr |-> 1]
          ELSE IF Unsupported(jointype)
          THEN [jointype |-> {"JT_INNER"}, nErr |-> 1]
          ELSE [jointype |-> jointype, nErr |-> 0] :
          jointype \in {ScanTokens(<<pA, pB, pC>>, 1, {})} })

\* The tokens tried: the seven keywords, three of them in another case,
\* and four identifiers that are no keywords (a prefix of a keyword, a
\* keyword with a letter appended, a part of zKeyText that spans two
\* keywords, and a word that shares nothing with them).
JoinKeywords ==
    {<<"n", "a", "t", "u", "r", "a", "l">>, <<"l", "e", "f", "t">>,
     <<"o", "u", "t", "e", "r">>, <<"r", "i", "g", "h", "t">>,
     <<"f", "u", "l", "l">>, <<"i", "n", "n", "e", "r">>,
     <<"c", "r", "o", "s", "s">>,
     <<"L", "E", "F", "T">>, <<"I", "n", "n", "e", "r">>,
     <<"R", "i", "g", "h", "T">>}

OtherWords ==
    {<<"l", "e", "f">>, <<"l", "e", "f", "t", "y">>,
     <<"e", "f", "t", "o", "u">>, <<"z", "z", "z", "z">>}

\* pA alone is a join keyword (the function asserts pB != 0 where it
\* reports an unknown join type); pC comes only with pB.
JoinTokens ==
    {t \in (JoinKeywords \cup OtherWords)
               \X (JoinKeywords \cup OtherWords \cup {NoToken})
               \X (JoinKeywords \cup OtherWords \cup {NoToken}) :
        t[2] = NoToken => (t[3] = NoToken /\ t[1] \in JoinKeywords)}

InitJoin ==
    \E t \in JoinTokens :
        /\ qry = [stage |-> "parsed", apAll |-> t, jointype |-> {},
                  nErr |-> 0]
        /\ Load(Parse0)

JoinType ==
    /\ qry.stage = "parsed"
    /\ \E r \in {sqlite3JoinType(qry.apAll[1], qry.apAll[2],
                                 qry.apAll[3])} :
          qry' = [qry EXCEPT !.stage = "typed", !.jointype = r.jointype,
                             !.nErr = r.nErr]
    /\ UNCHANGED <<prog, pc, cur, regs, tabs, sorter, out, mem, halt>>
    /\ UNCHANGED <<co, queue, popped, aggSorter>>

NextJoin ==
    \/ JoinType

SpecJoin == InitJoin /\ [][NextJoin]_vars

\* The keyword a token spells, in lower case ("" when it spells none).
Spelled(t) ==
    LET low == [k \in 1..Len(t) |-> ToLower(t[k])]
    IN CASE low = <<"n", "a", "t", "u", "r", "a", "l">> -> "natural"
         [] low = <<"l", "e", "f", "t">> -> "left"
         [] low = <<"o", "u", "t", "e", "r">> -> "outer"
         [] low = <<"r", "i", "g", "h", "t">> -> "right"
         [] low = <<"f", "u", "l", "l">> -> "full"
         [] low = <<"i", "n", "n", "e", "r">> -> "inner"
         [] low = <<"c", "r", "o", "s", "s">> -> "cross"
         [] OTHER -> ""

\* The join-type bits of a keyword.
BitsOf(w) ==
    CASE w = "natural" -> {"JT_NATURAL"}
      [] w = "left" -> {"JT_LEFT", "JT_OUTER"}
      [] w = "outer" -> {"JT_OUTER"}
      [] w = "right" -> {"JT_RIGHT", "JT_OUTER"}
      [] w = "full" -> {"JT_LEFT", "JT_RIGHT", "JT_OUTER"}
      [] w = "inner" -> {"JT_INNER"}
      [] w = "cross" -> {"JT_INNER", "JT_CROSS"}
      [] OTHER -> {}

MergeOp == qry.terms[2].op
MergeA == qry.terms[1].rows
MergeB == qry.terms[2].rows
MergeKey == MergeOrderBy(qry.terms[2].op, qry.terms[2].pOrderBy)

\* Rows a and b are equal under the merge key.
Tied(a, b) == Compare(KeyOf(a, MergeKey), KeyOf(b, MergeKey)) = 0

\* The rows of s that tie with a row of t.
TiedRows(s, t) == {a \in Range(s) : \E b \in Range(t) : Tied(a, b)}

\* Both coroutines hold a row.
BothCurrent ==
    /\ co["A"] \in 1..Len(MergeA)
    /\ co["B"] \in 1..Len(MergeB)

\* Control is at the first instruction of the A==B subroutine, which the
\* OP_Jump of the merge loop has just entered on a tie.
InTieHandler ==
    /\ Running
    /\ BothCurrent
    /\ Tied(CoRow("A"), CoRow("B"))
    /\ \E a \in 1..Len(prog) :
           /\ prog[a].op = "Compare"
           /\ pc = LabelAddr(prog, prog[a].eq)

\* What the output holds of the tied rows once the merge has ended, as C16
\* states it: UNION ALL both rows, UNION and EXCEPT the left row,
\* INTERSECT rows of ties only.
C16_TieEmitsPerOperator ==
    Finished =>
        CASE MergeOp = "TK_ALL" -> SameBag(out, MergeA \o MergeB)
          [] MergeOp \in {"TK_UNION", "TK_EXCEPT"} ->
                 TiedRows(MergeA, MergeB) \subseteq Range(out)
          [] OTHER -> Range(out) \subseteq TiedRows(MergeA, MergeB)

\* The output of the tied rows once the merge has ended.
TieOutcome ==
    Finished =>
        CASE MergeOp = "TK_ALL" -> SameBag(out, MergeA \o MergeB)
          [] MergeOp = "TK_UNION" ->
                 \A r \in TiedRows(MergeA, MergeB) : Count(out, r) = 1
          [] MergeOp = "TK_EXCEPT" ->
                 Range(out) \cap TiedRows(MergeA, MergeB) = {}
          [] OTHER -> /\ Range(out) = TiedRows(MergeA, MergeB)
                      /\ \A r \in Range(out) : Count(out, r) = 1

\* The step the A==B subroutine takes first.
TieStep ==
    InTieHandler =>
        CASE MergeOp = "TK_ALL" -> out' = Append(out, CoRow("A"))
          [] MergeOp = "TK_INTERSECT" ->
                 \/ out' = Append(out, CoRow("A"))
                 \/ /\ out' = out
                    /\ out # <<>>
                    /\ out[Len(out)] = CoRow("A")
          [] OTHER -> /\ out' = out
                      /\ prog[pc].op = "Yield"
                      /\ prog[pc].co = "A"

\* A row of the left side that a UNION outputs ties with no row of the
\* right side: of tied rows it is the right one that is output.
UnionOutputsRightOfTie ==
    (/\ MergeOp = "TK_UNION"
     /\ Running
     /\ prog[pc].op = "Gosub"
     /\ prog[pc].co = "A"
     /\ out' # out)
        => CoRow("A") \notin TiedRows(MergeA, MergeB)

\* C16 (amended): on a tie UNION ALL outputs the left row at once and the
\* right row later, so both reach the output; UNION and EXCEPT output
\* nothing at the tie and only advance the left side, UNION outputs the
\* tied row once, later and from the right side, and EXCEPT never outputs
\* it; INTERSECT outputs the left row on a tie, unless it repeats the row
\* output last, and outputs no other row.
C16_TieAdvancesLeft ==
    /\ [][TieStep /\ UnionOutputsRightOfTie]_vars
    /\ [](TieOutcome)

\* C16 witness: an EXCEPT has ended whose left rows were one below the
\* right row and one tied with it; only the first was output.
C16_Witness ==
    /\ Finished
    /\ MergeOp = "TK_EXCEPT"
    /\ MergeA = <<0, 1>>
    /\ MergeB = <<1>>
    /\ out = <<0>>

\* --------------------------------- end of data in the ordered merge
Other(c) == IF c = "A" THEN "B" ELSE "A"

\* The next step is an OP_Yield that finds its coroutine exhausted.
YieldsEof ==
    /\ Running
    /\ prog[pc].op = "Yield"
    /\ co[prog[pc].co] = Len(CoRows(prog[pc].co))

\* After the step, control is in the loop that outputs the rows left in
\* coroutine c (OP_Gosub regOutX; OP_Yield regAddrX; OP_Goto).
EntersDrain(c) ==
    /\ pc' <= Len(prog)
    /\ prog[pc'].op \in {"Gosub", "Yield"}
    /\ prog[pc'].co = c

\* Every row of s has been output.
Drained(s) == Range(s) \subseteq Range(out)

\* C17 as stated: at the end of data of one side UNION and UNION ALL drain
\* the other side to the output, and EXCEPT and INTERSECT end the merge at
\* once, whichever side it is.
C17_EofPerOperator ==
    /\ [][YieldsEof =>
            IF MergeOp \in {"TK_EXCEPT", "TK_INTERSECT"} THEN Finished'
            ELSE Finished' \/ EntersDrain(Other(prog[pc].co))]_vars
    /\ []((Finished /\ MergeOp \in {"TK_ALL", "TK_UNION"})
             => (Drained(MergeA) /\ Drained(MergeB)))

\* The rows of the left side that tie with none of the right side.
LeftOnly == Range(MergeA) \ TiedRows(MergeA, MergeB)

\* C17 (amended): at the end of data of one side UNION and UNION ALL drain
\* the other side to the output; INTERSECT ends the merge at once,
\* whichever side it is; EXCEPT ends the merge at once when the left side
\* is exhausted and drains the left side to the output when the right side
\* is exhausted.
C17_EofExceptDrainsLeft ==
    /\ [][YieldsEof =>
            CASE MergeOp = "TK_INTERSECT" -> Finished'
              [] MergeOp = "TK_EXCEPT" /\ prog[pc].co = "A" -> Finished'
              [] MergeOp = "TK_EXCEPT" /\ prog[pc].co = "B" ->
                     EntersDrain("A") /\ out' = out
              [] OTHER -> Finished' \/ EntersDrain(Other(prog[pc].co))]_vars
    /\ []((Finished /\ MergeOp \in {"TK_ALL", "TK_UNION"})
             => (Drained(MergeA) /\ Drained(MergeB)))
    /\ []((Finished /\ MergeOp = "TK_EXCEPT") => Range(out) = LeftOnly)

\* C17 witness: an EXCEPT whose right side was empty has ended with the
\* rows of its left side output.
C17_Witness ==
    /\ Finished
    /\ MergeOp = "TK_EXCEPT"
    /\ MergeA = <<0, 2>>
    /\ MergeB = <<>>
    /\ out = <<0, 2>>

\* ----------------------------- the ordered merge with LIMIT and OFFSET
\* LIMIT and OFFSET of the merge: none, or an integer literal; an OFFSET
\* comes with a LIMIT only.
MergeLimits == {NoLimit} \cup
               [has : {TRUE}, n : 0..MaxLimit, isInt : {TRUE}, sys : {FALSE}]
MergeOffsets == {NoOffset} \cup [has : {TRUE}, m : 0..MaxOffset]

\* The right SELECT of the merge, carrying ORDER BY, LIMIT and OFFSET.
MergeRightLimit(B, op, ob, lim, off) ==
    [Term(B, op) EXCEPT !.pOrderBy = ob, !.pLimit = lim, !.pOffset = off]

InitMergeLimit ==
    \E A \in SeqsUpTo(0..MaxVal, MaxRows), B \in SeqsUpTo(0..MaxVal, MaxRows),
       op \in CompoundOps, ob \in {<<1>>, <<2, 1>>},
       lim \in MergeLimits, off \in MergeOffsets :
        /\ off.has => lim.has
        /\ InKeyOrder(A, MergeOrderBy(op, ob))
        /\ InKeyOrder(B, MergeOrderBy(op, ob))
        /\ qry = [terms |-> <<Term(A, "TK_SELECT"),
                              MergeRightLimit(B, op, ob, lim, off)>>,
                  dest |-> DestOutput]
        /\ Load(multiSelectOrderBy(Parse0,
                                   MergeRightLimit(B, op, ob, lim, off),
                                   Term(A, "TK_SELECT"), DestOutput))

NextMergeLimit ==
    \/ StepOp
    \/ InitCoroutine
    \/ Yield
    \/ GosubOut
    \/ CompareJump

SpecMergeLimit == InitMergeLimit /\ [][NextMergeLimit]_vars

\* The next step calls the output subroutine for the current row of a
\* coroutine.
CallsOutput == Running /\ prog[pc].op = "Gosub"

\* The row handed to the output subroutine repeats the row accepted last.
IsDuplicate ==
    /\ prog[pc].regPrev # 0
    /\ regs[prog[pc].regPrev] # 0
    /\ regs[prog[pc].regPrev + 1] = CoRow(prog[pc].co)

\* The OFFSET counter is still positive.
OffsetPending ==
    /\ prog[pc].iOffset # 0
    /\ regs[prog[pc].iOffset] > 0

\* The registers other than those of the set rs are left alone.
RegsKeptBut(rs) ==
    \A r \in DOMAIN regs : r \notin rs => regs'[r] = regs[r]

\* The row becomes the row accepted last.
BecomesPrevious ==
    prog[pc].regPrev # 0 =>
        /\ regs'[prog[pc].regPrev] = 1
        /\ regs'[prog[pc].regPrev + 1] = CoRow(prog[pc].co)

\* One call of the output subroutine.
OutputSubroutineStep ==
    CallsOutput =>
        LET G == prog[pc]
            prev == IF G.regPrev = 0 THEN {}
                    ELSE {G.regPrev, G.regPrev + 1}
        IN CASE IsDuplicate ->
                    /\ out' = out
                    /\ regs' = regs
                    /\ pc' = SkipLabels(prog, pc + 1)
             [] ~IsDuplicate /\ OffsetPending ->
                    /\ out' = out
                    /\ BecomesPrevious
                    /\ regs'[G.iOffset] = regs[G.iOffset] - 1
                    /\ RegsKeptBut(prev \cup {G.iOffset})
                    /\ pc' = SkipLabels(prog, pc + 1)
             [] OTHER ->
                    /\ out' = Append(out, CoRow(G.co))
                    /\ BecomesPrevious
                    /\ G.iLimit # 0 =>
                           regs'[G.iLimit] = regs[G.iLimit] - 1
                    /\ RegsKeptBut(prev \cup {G.iLimit})
                    /\ IF G.iLimit # 0 /\ regs[G.iLimit] = 1
                       THEN Finished'
                       ELSE pc' = SkipLabels(prog, pc + 1)

\* C18: the output subroutine of the ordered merge tests the row for
\* repeating the row accepted last, then counts it against OFFSET, then
\* outputs it, then counts it against LIMIT: a suppressed duplicate leaves
\* the OFFSET and LIMIT counters alone, a row skipped by OFFSET becomes the
\* row accepted last, and the merge ends, with no further output, with the
\* row that takes the LIMIT counter to zero.
C18_OutputSubroutineOrder == [][OutputSubroutineStep]_vars

\* C18 witness: a UNION with LIMIT 1 OFFSET 1 has ended; of the left rows
\* 0, 0, 1 the first was skipped by OFFSET, the second suppressed as its
\* duplicate and the third output, which ended the merge before the right
\* row 2 was output.
C18_Witness ==
    /\ Finished
    /\ MergeOp = "TK_UNION"
    /\ MergeA = <<0, 0, 1>>
    /\ MergeB = <<2>>
    /\ qry.terms[2].pLimit.has /\ qry.terms[2].pLimit.n = 1
    /\ qry.terms[2].pOffset.has /\ qry.terms[2].pOffset.m = 1
    /\ out = <<1>>

\* ------------------------------- the order of the steps of selectInnerLoop
\* The next step runs selectInnerLoop, with no sorter, for a row of the
\* scan of a simple SELECT.
RoutesRow ==
    /\ Running
    /\ prog[pc].op = "InnerLoop"
    /\ cur <= Len(LoopRows(prog[pc]))
    /\ ~prog[pc].sort

RoutedRow == LoopRows(prog[pc])[cur]

\* The OFFSET counter of the SELECT is still positive.
RouterOffsetPending ==
    /\ prog[pc].iOffset # 0
    /\ regs[prog[pc].iOffset] > 0

\* The DISTINCT test finds the row to be a duplicate.
RouterDuplicate ==
    CASE prog[pc].eTnct = "UNORDERED" -> RoutedRow \in tabs[prog[pc].tabTnct]
      [] prog[pc].eTnct = "ORDERED" -> regs[prog[pc].tabTnct] = RoutedRow
      [] OTHER -> FALSE

\* The DISTINCT test has recorded the row as seen.
RecordedAsSeen ==
    CASE prog[pc].eTnct = "UNORDERED" ->
             tabs' = [tabs EXCEPT ![prog[pc].tabTnct] = @ \cup {RoutedRow}]
      [] prog[pc].eTnct = "ORDERED" ->
             regs'[prog[pc].tabTnct] = RoutedRow /\ tabs' = tabs
      [] OTHER -> tabs' = tabs

\* The row is counted against OFFSET and goes no further.
SkippedByOffset ==
    /\ regs'[prog[pc].iOffset] = regs[prog[pc].iOffset] - 1
    /\ out' = out
    /\ pc' = pc /\ cur' = cur + 1

\* The row is dispatched to the destination and counted against LIMIT; the
\* loop is left when the LIMIT counter reaches zero.
DispatchedAndCounted ==
    /\ out' = Append(out, RoutedRow)
    /\ prog[pc].iOffset # 0 =>
           regs'[prog[pc].iOffset] = regs[prog[pc].iOffset]
    /\ prog[pc].iLimit # 0 =>
           regs'[prog[pc].iLimit] = regs[prog[pc].iLimit] - 1
    /\ IF prog[pc].iLimit # 0 /\ regs[prog[pc].iLimit] = 1
       THEN pc' = SkipLabels(prog, pc + 1)
       ELSE pc' = pc /\ cur' = cur + 1

\* C19 as stated: with no sorter selectInnerLoop first counts the row
\* against OFFSET, then tests it for being a duplicate, then dispatches
\* it, then counts it against LIMIT, also when DISTINCT is active.
C19_OffsetBeforeDistinct ==
    [][RoutesRow =>
          CASE RouterOffsetPending -> SkippedByOffset
            [] ~RouterOffsetPending /\ RouterDuplicate ->
                   out' = out /\ regs' = regs /\ tabs' = tabs
            [] OTHER -> DispatchedAndCounted /\ RecordedAsSeen]_vars

\* C19 (amended): with no sorter and no DISTINCT selectInnerLoop counts the
\* row against OFFSET, then dispatches it, then counts it against LIMIT;
\* when DISTINCT is active the duplicate test comes first: a duplicate is
\* not counted against OFFSET, and a row skipped by OFFSET has been
\* recorded as seen.
C19_DistinctBeforeOffset ==
    [][RoutesRow =>
          CASE RouterDuplicate ->
                   /\ out' = out /\ regs' = regs /\ tabs' = tabs
                   /\ pc' = pc /\ cur' = cur + 1
            [] ~RouterDuplicate /\ RouterOffsetPending ->
                   SkippedByOffset /\ RecordedAsSeen
            [] OTHER -> DispatchedAndCounted /\ RecordedAsSeen]_vars

\* C19 witness: SELECT DISTINCT with LIMIT 2 OFFSET 1 and no sorter has
\* ended; of the rows 1, 1, 2 the first was skipped by OFFSET, the second
\* was dropped as a duplicate without being counted, the third was output.
C19_Witness ==
    /\ Finished
    /\ "SF_Distinct" \in qry.terms[1].selFlags
    /\ qry.terms[1].pOrderBy = "NONE"
    /\ qry.terms[1].rows = <<1, 1, 2>>
    /\ qry.terms[1].pLimit.has /\ qry.terms[1].pLimit.n = 2
    /\ qry.terms[1].pOffset.has /\ qry.terms[1].pOffset.m = 1
    /\ out = <<2>>

\* ---------------------------------- one iteration of the queue loop
\* The next step extracts the front row of the queue.
PopsRow ==
    /\ Running
    /\ prog[pc].op = "Rewind"
    /\ queue # <<>>

\* The next step outputs the row in Current.
OutputsCurrent == Running /\ prog[pc].op = "OutputCurrent"

CurrentOfLoop == regs[prog[pc].regCurrent]

\* The OFFSET counter of the recursive query is still positive.
LoopOffsetPending ==
    /\ prog[pc].regOffset # 0
    /\ regs[prog[pc].regOffset] > 0

\* After the step the recursive term is about to run on the row in
\* Current, which is the row the step found there.
RunsRecursiveTerm ==
    /\ pc' = SkipLabels(prog, pc + 1)
    /\ pc' <= Len(prog)
    /\ prog[pc'].op = "InnerLoop"
    /\ prog[pc'].regCurrent = prog[pc].regCurrent
    /\ prog[pc'].eDest \in {"SRT_Fifo", "SRT_DistFifo", "SRT_Queue",
                            "SRT_DistQueue"}
    /\ regs'[prog[pc].regCurrent] = CurrentOfLoop
    /\ cur' = 1

\* The front row leaves the queue for Current; nothing is output.
PopStep ==
    PopsRow =>
        /\ queue' = Tail(queue)
        /\ regs' = [regs EXCEPT ![prog[pc].regCurrent] = Head(queue)]
        /\ popped' = Append(popped, Head(queue))
        /\ out' = out
        /\ pc' = SkipLabels(prog, pc + 1)
        /\ prog[pc'].op = "OutputCurrent"

\* A row skipped by OFFSET: not output, not counted against LIMIT.
SkipsCurrent ==
    /\ out' = out
    /\ regs' = [regs EXCEPT ![prog[pc].regOffset] = @ - 1]

\* A routed row: output and counted against LIMIT.
RoutesCurrent ==
    /\ out' = Append(out, CurrentOfLoop)
    /\ regs' = IF prog[pc].regLimit # 0
               THEN [regs EXCEPT ![prog[pc].regLimit] = @ - 1]
               ELSE regs

\* Rows enter the queue at its tail and leave it at its front.
FifoStep ==
    qry.terms[2].pOrderBy = "NONE" =>
        LET old == popped \o queue
            new == popped' \o queue'
        IN /\ Len(old) <= Len(new)
           /\ SubSeq(new, 1, Len(old)) = old
           /\ Len(popped) <= Len(popped')
           /\ SubSeq(popped', 1, Len(popped)) = popped

\* C20 as stated: the front row is removed first; it is routed unless the
\* OFFSET counter is positive; LIMIT is counted for routed rows only; the
\* recursive term is run on every extracted row; without ORDER BY the
\* queue is a FIFO.
C20_RecursiveTermOnEveryRow ==
    [][/\ PopStep
       /\ OutputsCurrent =>
              /\ IF LoopOffsetPending THEN SkipsCurrent ELSE RoutesCurrent
              /\ RunsRecursiveTerm
       /\ FifoStep]_vars

\* The routing of the row takes the LIMIT counter to zero.
ExhaustsLimit ==
    /\ ~LoopOffsetPending
    /\ prog[pc].regLimit # 0
    /\ regs[prog[pc].regLimit] = 1

\* C20 (amended): the front row is removed first; it is routed unless the
\* OFFSET counter is positive; LIMIT is counted for routed rows only; the
\* recursive term is run on every extracted row, rows skipped by OFFSET
\* included, except the row whose routing takes the LIMIT counter to zero,
\* which ends the loop with the queue as it is; without ORDER BY the queue
\* is a FIFO.
C20_RecursiveTermUnlessLimit ==
    [][/\ PopStep
       /\ OutputsCurrent =>
              /\ IF LoopOffsetPending THEN SkipsCurrent ELSE RoutesCurrent
              /\ IF ExhaustsLimit
                 THEN pc' = LabelAddr(prog, prog[pc].brk) /\ queue' = queue
                 ELSE RunsRecursiveTerm
       /\ FifoStep]_vars

\* C20 witness: UNION ALL with LIMIT 1 OFFSET 1 and no ORDER BY, whose
\* recursive term returns its input row: row 0 was extracted, skipped by
\* OFFSET and fed to the recursive term, which queued 0 behind 1; row 1 was
\* extracted and output, which ended the loop.
C20_Witness ==
    /\ Finished
    /\ qry.terms[2].op = "TK_ALL"
    /\ qry.terms[2].pOrderBy = "NONE"
    /\ qry.terms[1].rows = <<0, 1>>
    /\ qry.terms[2].rec = [x \in 0..MaxRecVal |-> <<x>>]
    /\ qry.terms[2].pLimit.has /\ LimitValue = 1
    /\ OffsetValue = 1
    /\ popped = <<0, 1>>
    /\ out = <<1>>
    /\ queue = <<0>>

\* ------------------------------------- the grouped SELECT with a LIMIT
GroupLimitShapes ==
    {c \in [g : GroupShapes, lim : Limits, off : Offsets] :
        c.off.has => c.lim.has}

GroupLimitSelect(c) ==
    [GroupSelect(c.g) EXCEPT !.pLimit = c.lim, !.pOffset = c.off]

InitGroupLimit ==
    \E c \in GroupLimitShapes :
        /\ qry = [terms |-> <<GroupLimitSelect(c)>>, dest |-> DestOutput]
        /\ Load(SelectOne(Parse0, GroupLimitSelect(c), DestOutput).P)

SpecGroupLimit == InitGroupLimit /\ [][NextGroupBy]_vars

\* The GROUP BY loop instruction of the loaded program; it names the
\* registers iAbortFlag, iUseFlag and those of the accumulator.
TheGroupLoop ==
    prog[CHOOSE k \in 1..Len(prog) : prog[k].op = "GroupLoop"]

HasGroupLoop == \E k \in 1..Len(prog) : prog[k].op = "GroupLoop"

\* iAbortFlag is positive.
AbortFlagSet == HasGroupLoop /\ regs[TheGroupLoop.iAbortFlag] > 0

\* The program is inside the GROUP BY loop (addrTopOfLoop .. end of loop).
InGroupLoop == Running /\ prog[pc].op = "GroupLoop"

\* C21: in the GROUP BY loop, as soon as the output subroutine has set the
\* abort flag the main loop is left (the poll follows the invocation inside
\* the loop), and from then on no input row is accumulated, the accumulator
\* is not reset and no group row is routed.
C21_AbortLeavesGroupLoop ==
    /\ [][(HasGroupLoop /\ ~AbortFlagSet /\ AbortFlagSet') => ~InGroupLoop']_vars
    /\ [][AbortFlagSet =>
            /\ regs'[TheGroupLoop.accCol] = regs[TheGroupLoop.accCol]
            /\ regs'[TheGroupLoop.accCnt] = regs[TheGroupLoop.accCnt]
            /\ out' = out
            /\ ~InGroupLoop']_vars
    /\ [](AbortFlagSet => ~InGroupLoop)

\* C21 witness: two groups under LIMIT 1; the first group was routed on the
\* change of the key, the flag was set and the second group never came out.
C21_Witness ==
    /\ Finished
    /\ AbortFlagSet
    /\ qry.terms[1].rows = <<0, 2, 1>>
    /\ qry.terms[1].pGroupBy = "COL1"
    /\ qry.terms[1].pHaving = 0
    /\ qry.terms[1].pLimit.n = 1
    /\ out = <<0>>

\* --------------------- compound-subquery flattening, with the links
\* The Select objects live in qry.heap, a function from object ids to
\* records [sel, pPrior, pNext]; sel is the term as in the flattening part
\* above, pPrior and pNext are ids (0: NULL).  The outer query is object 1,
\* branch j of the subquery, counted from the left, is object 1 + j.
MaxBranches == 3

ChainShapes ==
    [n : 2..MaxBranches,
     rows : [1..MaxBranches -> SeqsUpTo(FVals, 1)],
     minus : [1..MaxBranches -> BOOLEAN],
     sWhere : BOOLEAN, oMinus : BOOLEAN, oWhere : BOOLEAN,
     oOrderBy : BOOLEAN, oLimit : BOOLEAN, oOffset : BOOLEAN]

\* Branch j of the subquery: SELECT [-]x FROM tj [WHERE x >= 1].
ChainBranch(c, j) ==
    [PlainTerm(IF c.minus[j] THEN Minus(Column(j)) ELSE Column(j),
               BaseTable(c.rows[j], j))
        EXCEPT !.op = IF j = 1 THEN "TK_SELECT" ELSE "TK_ALL",
               !.pWhere = IF c.sWhere THEN <<[e |-> Column(j), k |-> 1]>>
                          ELSE <<>>]

ChainSub(c) == [j \in 1..c.n |-> ChainBranch(c, j)]

\* SELECT [-]a FROM (subquery) [WHERE a >= 1] [ORDER BY 1] [LIMIT 1
\* [OFFSET 1]].
ChainOuter(c) ==
    LET a == Column(0)
        item == [pSelect |-> ChainSub(c), rows |-> <<>>, iCursor |-> 0,
                 jointype |-> "JT_INNER", dual |-> FALSE]
        e == IF c.oMinus THEN Minus(a) ELSE a
    IN [PlainTerm(e, item) EXCEPT
           !.pWhere = IF c.oWhere THEN <<[e |-> a, k |-> 1]>> ELSE <<>>,
           !.pOrderBy = [has |-> c.oOrderBy, e |-> e, iOrderByCol |-> 1],
           !.pLimit = [has |-> c.oLimit, n |-> 1],
           !.pOffset = [has |-> c.oLimit /\ c.oOffset, m |-> 1]]

ChainHeap(c) ==
    [i \in 1..(1 + c.n) |->
        IF i = 1 THEN [sel |-> ChainOuter(c), pPrior |-> 0, pNext |-> 0]
        ELSE [sel |-> ChainBranch(c, i - 1),
              pPrior |-> IF i = 2 THEN 0 ELSE i - 1,
              pNext |-> IF i = 1 + c.n THEN 0 ELSE i + 1]]

InitChain ==
    \E c \in ChainShapes :
        /\ qry = [stage |-> "parsed", orig |-> ChainOuter(c),
                  heap |-> ChainHeap(c), p |-> 1, pSub1 |-> 1 + c.n,
                  pSub |-> 0, pParent |-> 0]
        /\ Load(Parse0)

\* flattenSubquery up to "If we reach this point, flattening is permitted":
\* the legality checks, then pSub = pSub->pPrior of the copy loop.
CheckFlatten ==
    /\ qry.stage = "parsed"
    /\ qry' = IF FlattenRefused(qry.orig, 1, FALSE, FALSE)
              THEN [qry EXCEPT !.stage = "refused"]
              ELSE [qry EXCEPT !.stage = "copying",
                               !.pSub = qry.heap[qry.pSub1].pPrior]
    /\ UNCHANGED <<prog, pc, cur, regs, tabs, sorter, out, mem, halt>>
    /\ UNCHANGED <<co, queue, popped, aggSorter>>

\* A faulty link step that forgets pPrior->pNext = pNew.
InsertCopy_NoBackLink(heap, p, new) ==
    LET pPrior == heap[p].pPrior
        pNew == Len(heap) + 1
    IN [Append(heap, [sel |-> new, pPrior |-> pPrior, pNext |-> p])
           EXCEPT ![p].pPrior = pNew]

\* pNew->pPrior = pPrior; if (pPrior) pPrior->pNext = pNew;
\* pNew->pNext = p; p->pPrior = pNew.
InsertCopy(heap, p, new) ==
    LET pPrior == heap[p].pPrior
        pNew == Len(heap) + 1
        h1 == Append(heap, [sel |-> new, pPrior |-> pPrior, pNext |-> p])
        h2 == IF pPrior # 0 THEN [h1 EXCEPT ![pPrior].pNext = pNew] ELSE h1
    IN [h2 EXCEPT ![p].pPrior = pNew]

\* One turn of "for (pSub = pSub->pPrior; pSub; pSub = pSub->pPrior)": a
\* copy of p without ORDER BY, FROM, LIMIT and OFFSET is linked to the left
\* of p, and p->op becomes TK_ALL.
CopyParent ==
    /\ qry.stage = "copying"
    /\ qry.pSub # 0
    /\ LET p == qry.p
           pNew == [qry.heap[p].sel EXCEPT !.pOrderBy = NoExprList,
                                          !.pSrc = <<>>,
                                          !.pLimit = [has |-> FALSE, n |-> 0],
                                          !.pOffset = [has |-> FALSE, m |-> 0]]
       IN qry' = [qry EXCEPT
                    !.heap = [InsertCopy(qry.heap, p, pNew)
                                 EXCEPT ![p].sel.op = "TK_ALL"],
                    !.pSub = qry.heap[qry.pSub].pPrior]
    /\ UNCHANGED <<prog, pc, cur, regs, tabs, sorter, out, mem, halt>>
    /\ UNCHANGED <<co, queue, popped, aggSorter>>

\* pSub = pSub1 = pSubitem->pSelect; pSubitem->pSelect = 0.
CopyEnd ==
    /\ qry.stage = "copying"
    /\ qry.pSub = 0
    /\ qry' = [qry EXCEPT !.stage = "moving", !.pParent = qry.p,
                          !.pSub = qry.pSub1]
    /\ UNCHANGED <<prog, pc, cur, regs, tabs, sorter, out, mem, halt>>
    /\ UNCHANGED <<co, queue, popped, aggSorter>>

\* One turn of "for (pParent = p; pParent; pParent = pParent->pPrior,
\* pSub = pSub->pPrior)".
MoveTerm ==
    /\ qry.stage = "moving"
    /\ qry.pParent # 0
    /\ LET pParent == qry.heap[qry.pParent].sel
           pSub == qry.heap[qry.pSub].sel
           pSubitem == qry.orig.pSrc[1]
           pSrc == IF pParent.pSrc # <<>>
                   THEN [pSub.pSrc EXCEPT ![1].jointype = pSubitem.jointype]
                   ELSE [pSub.pSrc EXCEPT ![1].jointype = "JT_INNER"]
       IN qry' = [qry EXCEPT
                    !.heap[qry.pParent].sel =
                        FlattenTerm(pParent, pSub, pSrc, pSubitem.iCursor,
                                    FALSE),
                    !.pParent = qry.heap[qry.pParent].pPrior,
                    !.pSub = qry.heap[qry.pSub].pPrior]
    /\ UNCHANGED <<prog, pc, cur, regs, tabs, sorter, out, mem, halt>>
    /\ UNCHANGED <<co, queue, popped, aggSorter>>

\* sql_select_delete(db, pSub1); return 1.
MoveEnd ==
    /\ qry.stage = "moving"
    /\ qry.pParent = 0
    /\ qry' = [qry EXCEPT !.stage = "flattened"]
    /\ UNCHANGED <<prog, pc, cur, regs, tabs, sorter, out, mem, halt>>
    /\ UNCHANGED <<co, queue, popped, aggSorter>>

NextChain ==
    \/ CheckFlatten
    \/ CopyParent
    \/ CopyEnd
    \/ MoveTerm
    \/ MoveEnd

SpecChain == InitChain /\ [][NextChain]_vars

\* The ids of the chain that ends at object id, right to left, following
\* pPrior for at most n links.
RECURSIVE PriorChain(_, _, _)
PriorChain(heap, id, n) ==
    IF id = 0 \/ n = 0 THEN <<>>
    ELSE <<id>> \o PriorChain(heap, heap[id].pPrior, n - 1)

\* pPrior and pNext of the chain ch (right to left) agree.
LinksConsistent(heap, ch) ==
    /\ ch # <<>>
    /\ heap[ch[1]].pNext = 0
    /\ heap[ch[Len(ch)]].pPrior = 0
    /\ \A k \in 1..(Len(ch) - 1) :
          /\ heap[ch[k]].pPrior = ch[k + 1]
          /\ heap[ch[k + 1]].pNext = ch[k]

\* C23: after the flattening of a FROM subquery that is a UNION ALL
\* compound of N branches the outer query heads a chain of exactly N terms
\* with consistent pPrior/pNext links, all but the left-most with operator
\* UNION ALL; the k-th term from the right has the FROM clause and the
\* substituted result expression of the k-th branch from the right; the
\* N - 1 copies have no ORDER BY, LIMIT or OFFSET, which are those of the
\* outer query on the right-most term.
C23_CompoundFlattening ==
    qry.stage = "flattened" =>
        LET heap == qry.heap
            N == qry.pSub1 - 1
            ch == PriorChain(heap, qry.p, Len(heap))
            subs == PriorChain(heap, qry.pSub1, Len(heap))
            F == flattenSubquery(qry.orig, 1, FALSE, FALSE)
        IN /\ Len(ch) = N
           /\ LinksConsistent(heap, ch)
           /\ \A k \in 1..N :
                 LET t == heap[ch[k]].sel
                     b == heap[subs[k]].sel
                 IN /\ k < N => t.op = "TK_ALL"
                    /\ t.pSrc = b.pSrc
                    /\ t.pEList = substExpr(qry.orig.pEList, 0, b.pEList)
                    /\ k > 1 => /\ ~t.pOrderBy.has /\ ~t.pLimit.has
                                /\ ~t.pOffset.has
                    /\ t = F.p[N + 1 - k]
           /\ heap[qry.p].sel.pOrderBy.has = qry.orig.pOrderBy.has
           /\ heap[qry.p].sel.pLimit = qry.orig.pLimit
           /\ heap[qry.p].sel.pOffset = qry.orig.pOffset

\* C23 witness: a subquery of three branches with different result
\* expressions under an outer ORDER BY and LIMIT has been flattened.
C23_Witness ==
    /\ qry.stage = "flattened"
    /\ qry.pSub1 = 4
    /\ qry.orig.pOrderBy.has /\ qry.orig.pLimit.has
    /\ qry.heap[2].sel.pEList # qry.heap[3].sel.pEList
    /\ Len(qry.heap) = 6
    /\ qry.heap[1].pPrior = 6 /\ qry.heap[6].pPrior = 5

\* C24: whenever flattenSubquery returns 0 the outer query, the subquery
\* and the FROM list are exactly as before the call, and no error has been
\* recorded.
C24_RefusalChangesNothing ==
    qry.stage = "refused" => (qry.p = qry.orig /\ qry.nErr = 0)

\* C24 witness: a subquery that is a UNION compound has been refused by
\* restriction 17, the last group of checks, and the statement is intact.
C24_Witness ==
    /\ qry.stage = "refused"
    /\ Len(qry.orig[1].pSrc[1].pSelect) = 2
    /\ qry.orig[1].pSrc[1].pSelect[2].op = "TK_UNION"
    /\ qry.orig[1].pWhere # <<>>
    /\ qry.p = qry.orig

\* ------------------------------------------- the WHERE push-down
\* An outer WHERE is a tree: [op |-> "NULL"] (no WHERE), a comparison
\* [op |-> "TK_GE", e, k, origin] of the expression e with the constant k,
\* or [op |-> "TK_AND", pLeft, pRight].  origin tells where the parser took
\* the comparison from: "WHERE", "ON" (inner join) or "LEFT ON" (outer
\* join); setJoinExpr gives EP_FromJoin to the terms of the last kind only.
\* e refers to the subquery (cursor 0), to another FROM item (cursor 3) or
\* to no column at all (cursor -1).
NoWhere == [op |-> "NULL"]

\* sqlite3ExprAnd
sqlite3ExprAnd(pLeft, pRight) ==
    IF pLeft.op = "NULL" THEN pRight
    ELSE IF pRight.op = "NULL" THEN pLeft
    ELSE [op |-> "TK_AND", pLeft |-> pLeft, pRight |-> pRight]

\* ExprHasProperty(pWhere, EP_FromJoin)
FromJoin(pWhere) == pWhere.origin = "LEFT ON"

\* sqlite3ExprIsTableConstant(pWhere, iCursor)
sqlite3ExprIsTableConstant(pWhere, iCursor) ==
    pWhere.e.iTable \in {iCursor, -1}

\* The copy of conjunct pWhere that is ANDed into the WHERE of every term
\* of the chain pSubq.
PushInto(pSubq, pWhere, iCursor) ==
    [j \in 1..Len(pSubq) |->
        [pSubq[j] EXCEPT !.pWhere =
            Append(@, [e |-> substExpr(pWhere.e, iCursor, pSubq[j].pEList),
                       k |-> pWhere.k])]]

RECURSIVE pushDownWhereTerms(_, _, _)
RECURSIVE PushSpine(_, _, _, _)

\* The loop "while (pWhere->op == TK_AND)" of pushDownWhereTerms and the
\* code after it, entered with nChng.
PushSpine(pSubq, pWhere, iCursor, nChng) ==
    IF pWhere.op = "TK_AND"
    THEN The({PushSpine(R.pSubq, pWhere.pLeft, iCursor, nChng + R.rc) :
                 R \in {pushDownWhereTerms(pSubq, pWhere.pRight, iCursor)}})
    ELSE IF FromJoin(pWhere) THEN [rc |-> 0, pSubq |-> pSubq]
    ELSE IF sqlite3ExprIsTableConstant(pWhere, iCursor)
         THEN [rc |-> nChng + 1, pSubq |-> PushInto(pSubq, pWhere, iCursor)]
         ELSE [rc |-> nChng, pSubq |-> pSubq]

\* pushDownWhereTerms(pParse, pSubq, pWhere, iCursor): the return value and
\* the chain of the subquery afterwards (pSubq[Len(pSubq)] is pSubq itself,
\* the terms before it follow by pPrior).
pushDownWhereTerms(pSubq, pWhere, iCursor) ==
    IF pWhere.op = "NULL" THEN [rc |-> 0, pSubq |-> pSubq]
    ELSE IF \E j \in 1..Len(pSubq) :
               pSubq[j].selFlags \cap {"SF_Aggregate", "SF_Recursive"} # {}
         THEN [rc |-> 0, pSubq |-> pSubq]
    ELSE IF pSubq[Len(pSubq)].pLimit.has THEN [rc |-> 0, pSubq |-> pSubq]
    ELSE PushSpine(pSubq, pWhere, iCursor, 0)

\* ---- the statements
PushLeaves ==
    [op : {"TK_GE"}, e : {Column(0), Column(3), Column(-1)}, k : {1},
     origin : {"WHERE"}]

\* The tree of the conjunction of the terms s, as the parser builds it.
RECURSIVE AndAll(_)
AndAll(s) ==
    IF s = <<>> THEN NoWhere
    ELSE sqlite3ExprAnd(AndAll(SubSeq(s, 1, Len(s) - 1)), s[Len(s)])

\* setJoinExpr for an outer join; the terms of an inner join are "ON".
RECURSIVE MarkOrigin(_, _)
MarkOrigin(w, origin) ==
    IF w.op = "TK_AND"
    THEN [w EXCEPT !.pLeft = MarkOrigin(@, origin),
                   !.pRight = MarkOrigin(@, origin)]
    ELSE [w EXCEPT !.origin = origin]

\* sqliteProcessJoin: the ON clauses are ANDed to the end of the WHERE, in
\* the order of the joins.
RECURSIVE ProcessJoin(_, _)
ProcessJoin(pWhere, ons) ==
    IF ons = <<>> THEN pWhere
    ELSE ProcessJoin(
             sqlite3ExprAnd(pWhere,
                 MarkOrigin(AndAll(Head(ons).pOn),
                            IF Head(ons).isOuter THEN "LEFT ON" ELSE "ON")),
             Tail(ons))

PushShapes ==
    [where : SeqsUpTo(PushLeaves, 2),
     ons : SeqsUpTo([isOuter : BOOLEAN,
                     pOn : {s \in SeqsUpTo({l \in PushLeaves :
                                                l.e.iTable >= 0}, 2) :
                               s # <<>>}], 2),
     n : 1..2, minus : BOOLEAN, sWhere : BOOLEAN,
     flag : {"NONE", "SF_Aggregate", "SF_Recursive", "LIMIT"},
     at : 1..2, subOuter : BOOLEAN]

\* The subquery: one or two terms SELECT [-]x FROM tj [WHERE x >= 1]; term
\* c.at is an aggregate or recursive, or the subquery has a LIMIT.
PushSub(c) ==
    [j \in 1..c.n |->
        [PlainTerm(IF c.minus /\ j = c.n THEN Minus(Column(j)) ELSE Column(j),
                   BaseTable(<<>>, j))
            EXCEPT !.op = IF j = 1 THEN "TK_SELECT" ELSE "TK_ALL",
                   !.pWhere = IF c.sWhere THEN <<[e |-> Column(j), k |-> 1]>>
                              ELSE <<>>,
                   !.pLimit = [has |-> c.flag = "LIMIT" /\ j = c.n, n |-> 1],
                   !.selFlags = IF c.flag \in {"SF_Aggregate", "SF_Recursive"}
                                   /\ (j = c.at \/ (c.at > c.n /\ j = c.n))
                                THEN {c.flag} ELSE {}]]

InitPush ==
    \E c \in PushShapes :
        /\ qry = [stage |-> "parsed",
                  pWhere |-> ProcessJoin(AndAll(c.where), c.ons),
                  jointype |-> IF c.subOuter THEN "JT_OUTER" ELSE "JT_INNER",
                  orig |-> PushSub(c), pSub |-> PushSub(c), rc |-> 0]
        /\ Load(Parse0)

\* sqlite3Select: the call of pushDownWhereTerms for a FROM subquery that
\* is not the right operand of a LEFT JOIN.
PushDown ==
    /\ qry.stage = "parsed"
    /\ qry.jointype # "JT_OUTER"
    /\ \E R \in {pushDownWhereTerms(qry.pSub, qry.pWhere, 0)} :
          qry' = [qry EXCEPT !.stage = "pushed", !.pSub = R.pSubq,
                             !.rc = R.rc]
    /\ UNCHANGED <<prog, pc, cur, regs, tabs, sorter, out, mem, halt>>
    /\ UNCHANGED <<co, queue, popped, aggSorter>>

PushSkipped ==
    /\ qry.stage = "parsed"
    /\ qry.jointype = "JT_OUTER"
    /\ qry' = [qry EXCEPT !.stage = "skipped"]
    /\ UNCHANGED <<prog, pc, cur, regs, tabs, sorter, out, mem, halt>>
    /\ UNCHANGED <<co, queue, popped, aggSorter>>

NextPush ==
    \/ PushDown
    \/ PushSkipped

SpecPush == InitPush /\ [][NextPush]_vars

\* The comparisons of the tree w, from the right-most to the left-most.
RECURSIVE Conjuncts(_)
Conjuncts(w) ==
    IF w.op = "NULL" THEN <<>>
    ELSE IF w.op = "TK_AND" THEN Conjuncts(w.pRight) \o Conjuncts(w.pLeft)
    ELSE <<w>>

\* The conjuncts of the outer WHERE that qualify for the subquery orig.
Pushable(orig, w) ==
    IF \/ \E j \in 1..Len(orig) :
             orig[j].selFlags \cap {"SF_Aggregate", "SF_Recursive"} # {}
       \/ orig[Len(orig)].pLimit.has
    THEN <<>>
    ELSE SelectSeq(Conjuncts(w),
             LAMBDA t : /\ t.origin # "LEFT ON"
                        /\ t.e.iTable \in {0, -1})

\* Every term of the chain has the qualifying conjuncts ANDed to its WHERE,
\* column references substituted, and is otherwise as before.
PushedIntoEveryTerm ==
    LET ps == Pushable(qry.orig, qry.pWhere)
    IN /\ Len(qry.pSub) = Len(qry.orig)
       /\ \A j \in 1..Len(qry.orig) :
             qry.pSub[j] =
                 [qry.orig[j] EXCEPT !.pWhere =
                     @ \o [i \in 1..Len(ps) |->
                             [e |-> substExpr(ps[i].e, 0,
                                              qry.orig[j].pEList),
                              k |-> ps[i].k]]]

\* C25: pushDownWhereTerms copies exactly the conjuncts that qualify (no
\* term of the chain aggregate or recursive, no LIMIT, not from the ON or
\* USING clause of a LEFT JOIN, only the cursor of the subquery) into the
\* WHERE of every term of the chain; it returns the number of conjuncts
\* pushed, and when it returns 0 no term of the subquery was modified.
C25_PushDownCountsConjuncts ==
    qry.stage = "pushed" =>
        /\ PushedIntoEveryTerm
        /\ qry.rc = Len(Pushable(qry.orig, qry.pWhere))
        /\ qry.rc = 0 => qry.pSub = qry.orig

\* What pushDownWhereTerms does to the subquery, whatever it returns.
PushDownEffect == qry.stage = "pushed" => PushedIntoEveryTerm

\* A statement FROM (subquery) LEFT JOIN .. ON .. JOIN .. ON s.x >= 1
\* without WHERE: the subquery was modified and 0 was returned.
PushDownReturnsZeroAfterPush ==
    /\ qry.stage = "pushed"
    /\ qry.rc = 0
    /\ qry.pSub # qry.orig

\* --------------------------- the ORDER BY patch-up of multiSelectOrderBy
\* Largest number of result columns and longest ORDER BY list written by
\* the user.
MaxExpr == 3
MaxOrderBy == 3

\* "Patch up the ORDER BY clause": the list p->pOrderBy, given by its
\* iOrderByCol values, after the patch-up for operator op and nExpr result
\* columns.
PatchUpOrderBy(op, pOrderBy, nExpr) ==
    IF op # "TK_ALL" THEN ExtendOrderBy(pOrderBy, 1, nExpr) ELSE pOrderBy

\* qry.stage is "parsed" before the patch-up and "patched" after it;
\* qry.user is the list as written.
InitPatchUp ==
    \E op \in CompoundOps, nExpr \in 1..MaxExpr :
        \E ob \in SeqsUpTo(1..nExpr, MaxOrderBy) :
            /\ ob # <<>>
            /\ qry = [stage |-> "parsed", op |-> op, nExpr |-> nExpr,
                      user |-> ob, pOrderBy |-> ob]
            /\ Load(Parse0)

PatchUp ==
    /\ qry.stage = "parsed"
    /\ qry' = [qry EXCEPT !.stage = "patched",
                          !.pOrderBy = PatchUpOrderBy(qry.op, @, qry.nExpr)]
    /\ UNCHANGED <<prog, pc, cur, regs, tabs, sorter, out, mem, halt>>
    /\ UNCHANGED <<co, queue, popped, aggSorter>>

NextPatchUp == PatchUp

SpecPatchUp == InitPatchUp /\ [][NextPatchUp]_vars

\* C26: after the patch-up for an operator other than UNION ALL every
\* result column 1..N is named by an ORDER BY term, the list has at least N
\* terms, the terms of the user are its front part in their positions and
\* the added terms follow in increasing column order; for UNION ALL the
\* list is as written.
C26_OrderByPatchUp ==
    qry.stage = "patched" =>
        LET new == qry.pOrderBy
            nUser == Len(qry.user)
        IN IF qry.op = "TK_ALL" THEN new = qry.user
           ELSE /\ \A c \in 1..qry.nExpr : \E j \in 1..Len(new) : new[j] = c
                /\ Len(new) >= qry.nExpr
                /\ Len(new) >= nUser
                /\ SubSeq(new, 1, nUser) = qry.user
                /\ \A j \in (nUser + 1)..(Len(new) - 1) : new[j] < new[j + 1]

\* C26 witness: ORDER BY 2 over three result columns of a UNION has become
\* ORDER BY 2, 1, 3.
C26_Witness ==
    /\ qry.stage = "patched"
    /\ qry.op = "TK_UNION"
    /\ qry.nExpr = 3
    /\ qry.user = <<2>>
    /\ qry.pOrderBy = <<2, 1, 3>>

\* ------------------------- scalar subquery with a LIMIT of its own
\* The subquery keeps the LIMIT the user wrote (no EP_System) and has
\* SF_SingleRow set; the destination is a register.
ScalarLimitShapes == {c \in SimpleShapes : c.lim.has}

AsScalarLimit(c) ==
    [SimpleSelect(c) EXCEPT !.selFlags = @ \cup {"SF_SingleRow"}]

InitScalarLimit ==
    \E c \in ScalarLimitShapes :
        /\ qry = [terms |-> <<AsScalarLimit(c)>>, dest |-> DestMem]
        /\ Load(sqlite3Select(Parse0, <<AsScalarLimit(c)>>, 1, TRUE,
                              DestMem).P)

SpecScalarLimit == InitScalarLimit /\ [][NextScalar]_vars

\* The program has ended, by OP_Halt or by running off its end.
Ended == halt # "" \/ pc > Len(prog)

\* C27: a scalar subquery with a LIMIT written by the user ends in the
\* error "Expression subquery could be limited only with 1" exactly when
\* the LIMIT evaluates to a value other than 1, constant or computed; with
\* the value 1 it raises no error, the multi-row error included.
C27_ErrorUnlessLimitOne ==
    Ended =>
        LET n == qry.terms[1].pLimit.n
        IN /\ (halt = ErrLimitOne) <=> (n # 1)
           /\ n = 1 => halt = ""

\* What the emitted code does: the error is raised for every value other
\* than 0 and 1; a LIMIT of 0 ends the subquery without a row and without
\* an error.
ErrorUnlessLimitZeroOrOne ==
    Ended =>
        LET n == qry.terms[1].pLimit.n
        IN /\ (halt = ErrLimitOne) <=> (n \notin {0, 1})
           /\ n \in {0, 1} => halt = ""
           /\ n = 0 => mem = -1

\* A subquery with LIMIT 0 over two rows has ended without an error.
ScalarLimitZeroNoError ==
    /\ Ended
    /\ qry.terms[1].pLimit.n = 0
    /\ Len(qry.terms[1].rows) = 2
    /\ halt = ""

\* ------------------------- the coroutines of the ordered merge
\* Coroutine c holds a current row: its latest resume delivered a row.
HoldsRow(c) == co[c] >= 1 /\ c \notin co.eof

\* C28: in the ordered merge an OP_Yield never resumes a coroutine that has
\* signalled its end, and an output subroutine is only invoked for a side
\* whose latest resume delivered a row: not before the first row of the
\* side and not after its end.
C28_NoResumeAfterEof ==
    Running =>
        /\ prog[pc].op = "Yield" => prog[pc].co \notin co.eof
        /\ prog[pc].op = "Gosub" => HoldsRow(prog[pc].co)
        /\ prog[pc].op = "Compare" => HoldsRow("A") /\ HoldsRow("B")

\* C28 witness: a UNION whose left side is empty is about to output the
\* first row of its right side, which it has resumed once; the left side
\* has ended.
C28_Witness ==
    /\ Running
    /\ prog[pc].op = "Gosub" /\ prog[pc].co = "B"
    /\ MergeOp = "TK_UNION"
    /\ MergeA = <<>>
    /\ co = [A |-> 0, B |-> 1, eof |-> {"A"}]

\* ------------------------------- termination of the ordered merge
\* The interpreter keeps executing instructions until the program ends.
SpecMergeFair == SpecMerge /\ WF_vars(NextMerge)

\* The resumes made so far: the rows delivered and the ends signalled.
Resumes == co["A"] + co["B"] + Cardinality(co.eof)

OpAt(a) == IF a <= Len(prog) THEN prog[a].op ELSE "End"

\* The OP_Yield at address a belongs to the start-up code, which lies
\* behind every OP_Goto of the merge.
StartUp(a) == \A b \in a..Len(prog) : prog[b].op # "Goto"

\* C29: for every operator and all inputs the ordered merge reaches its end
\* label.  A pass through the comparison dispatch (OP_Compare/OP_Jump, the
\* handler, OP_Goto) or through an end-of-data handler (OP_Gosub, OP_Yield,
\* OP_Goto) makes exactly one resume, every resume delivers a new row or
\* the end of its coroutine, and so the resumes, and with them the passes,
\* never exceed the number of input rows plus 2.
C29_MergeTerminates ==
    /\ <>Finished
    /\ [](Resumes <= Len(MergeA) + Len(MergeB) + 2)
    /\ [][(Running /\ OpAt(pc) = "Yield")
             => /\ Resumes' = Resumes + 1
                /\ prog[pc].co \notin co.eof
                /\ \/ OpAt(pc') = "Goto"
                   \/ prog[pc].co \in co'.eof
                   \/ StartUp(pc)]_vars
    /\ [][(Running /\ OpAt(pc) # "Yield") => Resumes' = Resumes]_vars
    /\ [][(Running /\ OpAt(pc) = "Compare")
             => OpAt(pc') \in {"Gosub", "Yield"}]_vars
    /\ [][(Running /\ OpAt(pc) = "Gosub") => OpAt(pc') = "Yield"]_vars
    /\ [][(Running /\ OpAt(pc) = "Goto")
             => OpAt(pc') \in {"Compare", "Gosub"}]_vars

\* C29 witness: a UNION of three and two rows has reached its end after
\* every row and both ends were delivered, in 7 resumes.
C29_Witness ==
    /\ Finished
    /\ MergeOp = "TK_UNION"
    /\ Len(MergeA) = 3 /\ Len(MergeB) = 2
    /\ Resumes = 7

\* ------------------------------- the flattening loop of sqlite3Select
\* The loop "for (i = 0; !p->pPrior && i < pTabList->nSrc; i++)" over query
\* trees of depth 3.  A FROM item is a base table or a subquery of one of
\* the kinds below; nField is the number of columns its table declares
\* (every SELECT of the model returns one column).  qry.i is the loop
\* variable, qry.isAgg the local isAgg, qry.p the chain that ends in p.
LoopKinds == {"plain", "distinct", "limit", "agg", "all", "union"}

LoopItem(sel, iCursor, nField) ==
    [pSelect |-> sel, rows |-> <<>>, iCursor |-> iCursor,
     jointype |-> "JT_INNER", dual |-> FALSE, nField |-> nField]

\* A subquery of the given kind that returns column iCursor + 1 of its first
\* FROM item; a compound has the term SELECT x FROM t on its left.
LoopSub(kind, pSrc, iCursor) ==
    LET e == Column(iCursor + 1)
        t == [PlainTerm(e, LoopItem(<<>>, iCursor + 1, 1)) EXCEPT
                 !.pSrc = pSrc,
                 !.op = CASE kind = "all" -> "TK_ALL"
                          [] kind = "union" -> "TK_UNION"
                          [] OTHER -> "TK_SELECT",
                 !.pGroupBy = [has |-> kind = "agg", e |-> e,
                               iOrderByCol |-> 0],
                 !.pLimit = [has |-> kind = "limit", n |-> 1],
                 !.selFlags = CASE kind = "agg" -> {"SF_Aggregate"}
                                [] kind = "distinct" -> {"SF_Distinct"}
                                [] OTHER -> {}]
    IN IF kind \in {"all", "union"}
       THEN <<PlainTerm(Column(iCursor + 9),
                        LoopItem(<<>>, iCursor + 9, 1)), t>>
       ELSE <<t>>

\* Longest FROM clause of a term of the statements.
MaxSrc == 2

\* The first FROM item of the outer query: a base table (src is <<>>) or a
\* subquery with the FROM items src.
LoopMid ==
    {f \in [kind : LoopKinds \cup {"base"},
            src : SeqsUpTo(LoopKinds \cup {"base"}, MaxSrc)] :
        (f.kind = "base") = (f.src = <<>>)}

LoopShapes ==
    [first : LoopMid,
     second : LoopKinds \cup {"base", "none"},
     oAgg : BOOLEAN,
     bad : 0..MaxSrc]

\* The item of kind k at cursor iCursor.
LoopLeafItem(k, iCursor, nField) ==
    IF k = "base" THEN LoopItem(<<>>, iCursor, nField)
    ELSE LoopItem(LoopSub(k, <<LoopItem(<<>>, iCursor + 1, 1)>>, iCursor),
                  iCursor, nField)

LoopOuter(c) ==
    LET nF(n) == IF c.bad = n THEN 2 ELSE 1
        first ==
            IF c.first.kind = "base" THEN LoopItem(<<>>, 100, nF(1))
            ELSE LoopItem(
                     LoopSub(c.first.kind,
                             [m \in 1..Len(c.first.src) |->
                                 LoopLeafItem(c.first.src[m],
                                              100 + 10 * m, 1)],
                             100),
                     100, nF(1))
        second == LoopLeafItem(c.second, 200, nF(2))
    IN [PlainTerm(Column(100), first) EXCEPT
           !.pSrc = IF c.second = "none" THEN <<first>>
                    ELSE <<first, second>>,
           !.pGroupBy = [has |-> c.oAgg, e |-> Column(100),
                         iOrderByCol |-> 0],
           !.selFlags = IF c.oAgg THEN {"SF_Aggregate"} ELSE {}]

InitFlattenLoop ==
    \E c \in LoopShapes :
        /\ qry = [stage |-> "loop", orig |-> <<LoopOuter(c)>>,
                  p |-> <<LoopOuter(c)>>, i |-> 0, isAgg |-> c.oAgg,
                  nErr |-> 0]
        /\ Load(Parse0)

LoopP == qry.p[Len(qry.p)]

\* The condition of the for statement.
LoopGuard == qry.stage = "loop" /\ Len(qry.p) = 1 /\ qry.i < Len(LoopP.pSrc)

LoopUnchanged ==
    /\ UNCHANGED <<prog, pc, cur, regs, tabs, sorter, out, mem, halt>>
    /\ UNCHANGED <<co, queue, popped, aggSorter>>

\* if (pSub == 0) continue;
LoopContinue ==
    /\ LoopGuard
    /\ LoopP.pSrc[qry.i + 1].pSelect = <<>>
    /\ qry' = [qry EXCEPT !.i = @ + 1]
    /\ LoopUnchanged

\* "expected %d columns for '%s' but got %d": goto select_end.
LoopMismatch ==
    /\ LoopGuard
    /\ LoopP.pSrc[qry.i + 1].pSelect # <<>>
    /\ LoopP.pSrc[qry.i + 1].nField # 1
    /\ qry' = [qry EXCEPT !.stage = "error", !.nErr = @ + 1]
    /\ LoopUnchanged

\* A faulty loop that restarts the scan after every call of
\* flattenSubquery, whatever it has returned.
TryFlatten_AlwaysRestarts ==
    /\ LoopGuard
    /\ LoopP.pSrc[qry.i + 1].pSelect # <<>>
    /\ LoopP.pSrc[qry.i + 1].nField = 1
    /\ LET pSub == LoopP.pSrc[qry.i + 1].pSelect
           isAggSub == "SF_Aggregate" \in pSub[Len(pSub)].selFlags
       IN \E F \in {flattenSubquery(LoopP, qry.i + 1, qry.isAgg, isAggSub)} :
             IF F.rc = 1
             THEN qry' = [qry EXCEPT
                     !.p = IF isAggSub
                           THEN [F.p EXCEPT ![Len(F.p)].selFlags =
                                                @ \cup {"SF_Aggregate"}]
                           ELSE F.p,
                     !.isAgg = @ \/ isAggSub,
                     !.i = 0]
             ELSE qry' = [qry EXCEPT !.i = 0]
    /\ LoopUnchanged

\* The call of flattenSubquery for the item i and what follows it in the
\* body of the loop: after a successful call i = -1, and the i++ of the for
\* statement makes it 0.
TryFlatten ==
    /\ LoopGuard
    /\ LoopP.pSrc[qry.i + 1].pSelect # <<>>
    /\ LoopP.pSrc[qry.i + 1].nField = 1
    /\ LET pSub == LoopP.pSrc[qry.i + 1].pSelect
           isAggSub == "SF_Aggregate" \in pSub[Len(pSub)].selFlags
       IN \E F \in {flattenSubquery(LoopP, qry.i + 1, qry.isAgg, isAggSub)} :
             IF F.rc = 1
             THEN qry' = [qry EXCEPT
                     !.p = IF isAggSub
                           THEN [F.p EXCEPT ![Len(F.p)].selFlags =
                                                @ \cup {"SF_Aggregate"}]
                           ELSE F.p,
                     !.isAgg = @ \/ isAggSub,
                     !.i = 0]
             ELSE qry' = [qry EXCEPT !.i = @ + 1]
    /\ LoopUnchanged

\* The condition of the for statement fails: the code generator goes on.
LoopEnd ==
    /\ qry.stage = "loop"
    /\ ~LoopGuard
    /\ qry' = [qry EXCEPT !.stage = "coded"]
    /\ LoopUnchanged

NextFlattenLoop ==
    \/ LoopContinue
    \/ LoopMismatch
    \/ TryFlatten
    \/ LoopEnd

SpecFlattenLoop == InitFlattenLoop /\ [][NextFlattenLoop]_vars

\* sqlite3Select runs the loop to its end.
SpecFlattenLoopFair == SpecFlattenLoop /\ WF_vars(NextFlattenLoop)

\* The subqueries embedded in a FROM clause, at every depth.
RECURSIVE SubqueryNodes(_)
RECURSIVE ChainNodes(_)
SubqueryNodes(pSrc) ==
    IF pSrc = <<>> THEN 0
    ELSE (IF pSrc[1].pSelect = <<>> THEN 0
          ELSE 1 + ChainNodes(pSrc[1].pSelect))
         + SubqueryNodes(Tail(pSrc))

ChainNodes(ch) ==
    IF ch = <<>> THEN 0
    ELSE SubqueryNodes(ch[1].pSrc) + ChainNodes(Tail(ch))

\* C30: the flattening loop at the start of sqlite3Select terminates for
\* every query tree.  A turn of the loop either leaves the statement as it
\* is and moves on to the next FROM term, or is a successful call of
\* flattenSubquery, after which the scan restarts at the first term; a
\* successful call removes one subquery from the FROM clause of the outer
\* query or makes the outer query a compound, and a compound ends the loop.
C30_FlattenLoopTerminates ==
    /\ <>(qry.stage # "loop")
    /\ [][(qry.stage = "loop" /\ qry'.stage = "loop")
             => \/ qry'.p = qry.p /\ qry'.i = qry.i + 1
                \/ /\ qry'.i = 0
                   /\ \/ /\ Len(qry'.p) = 1
                         /\ SubqueryNodes(qry'.p[1].pSrc)
                               = SubqueryNodes(qry.p[1].pSrc) - 1
                      \/ Len(qry'.p) > 1]_vars
    /\ [][(qry.stage = "loop" /\ Len(qry.p) > 1)
             => qry'.stage = "coded"]_vars

\* C30 witness: the loop has ended after it has flattened the three
\* subqueries of the statement, one of them nested in another.
C30_Witness ==
    /\ qry.stage = "coded"
    /\ Len(qry.p) = 1
    /\ SubqueryNodes(qry.orig[1].pSrc) = 3
    /\ \E m \in 1..Len(qry.orig[1].pSrc) :
          /\ qry.orig[1].pSrc[m].pSelect # <<>>
          /\ SubqueryNodes(qry.orig[1].pSrc[m].pSelect[1].pSrc) = 1
    /\ SubqueryNodes(qry.p[1].pSrc) = 0
====
